---- MODULE Spec2Model ----
(***************************************************************************)
(* Stackmaker: the simulation engine (stackmaker/src/world.rs, runner.rs)  *)
(* as a state machine.  A World is 32 layers of lazily created chunks of   *)
(* 256 block stacks plus a queue of signal buckets; Runner::tick pops the  *)
(* first bucket and applies every signal of it to the block on top of the  *)
(* signal's target stack.                                                  *)
(*                                                                         *)
(* Number representation.  TLC's integers are 32-bit signed, so the        *)
(* program's u32 and u64 are kept as sequences of 16-bit limbs, most       *)
(* significant limb first: a u32 is <<hi, lo>>, a u64 is <<l3,l2,l1,l0>>.  *)
(* A u8 is a natural number in 0..255.                                     *)
(***************************************************************************)
EXTENDS Integers, Sequences, FiniteSets, TLC

VARIABLES
    layers,          \* World::layers: [0..31 -> [chunk key -> [0..255 -> Seq(Block)]]]
    signals_queue,   \* World::signals_queue: Seq(Seq(signal))
    born,            \* history: for every queued signal, who enqueued it and when
    tickno,          \* history: number of calls of Runner::tick so far
    log,             \* history: what the last tick did, one record per signal
    hist,            \* history: what all ticks so far did (the logs, concatenated)
    halted,          \* "no", or why ticking ended: "panic", "bound" (past MaxBuckets)
    overflow_checks, \* build profile: TRUE = debug (arithmetic overflow panics)
    npush,           \* history: number of signals sent by the client
    nplace,          \* history: number of blocks placed by the client
    addr             \* the last call of a function on its own: its input and results

vars == <<layers, signals_queue, born, tickno, log, hist, halted, overflow_checks,
          npush, nplace, addr>>

(***************************************************************************)
(* Bounds of the model.                                                    *)
(***************************************************************************)
MaxTicks == 4
MaxPush == 1
MaxPlace == 1
MaxBuckets == 6

(***************************************************************************)
(* Fixed-width arithmetic on limb sequences.                               *)
(***************************************************************************)
Limb == 2 ^ 16

U32_ZERO == <<0, 0>>
U32_MAX == <<65535, 65535>>

\* a + b on limb sequences of equal length: [carry, limbs].
\* (<<>> \o f turns the function f into a tuple: it is computed once.)
AddL(a, b) ==
    LET n == Len(a)
        c[i \in 0..n] == IF i = n THEN 0 ELSE (a[i+1] + b[i+1] + c[i+1]) \div Limb
    IN [carry |-> c[0], limbs |-> <<>> \o [i \in 1..n |-> (a[i] + b[i] + c[i]) % Limb]]

\* a - b on limb sequences of equal length: [borrow, limbs] (limbs wrapped).
SubL(a, b) ==
    LET n == Len(a)
        br[i \in 0..n] == IF i = n THEN 0
                          ELSE IF a[i+1] - b[i+1] - br[i+1] < 0 THEN 1 ELSE 0
    IN [borrow |-> br[0],
        limbs |-> <<>> \o [i \in 1..n |-> (a[i] - b[i] - br[i] + Limb) % Limb]]

LessL(a, b) == SubL(a, b).borrow = 1

RECURSIVE BitAnd(_, _)
BitAnd(a, b) ==
    IF a = 0 \/ b = 0 THEN 0
    ELSE (a % 2) * (b % 2) + 2 * BitAnd(a \div 2, b \div 2)

RECURSIVE BitOr(_, _)
BitOr(a, b) ==
    IF a = 0 THEN b ELSE IF b = 0 THEN a
    ELSE (IF a % 2 = 1 \/ b % 2 = 1 THEN 1 ELSE 0) + 2 * BitOr(a \div 2, b \div 2)

RECURSIVE BitXor(_, _)
BitXor(a, b) ==
    IF a = 0 THEN b ELSE IF b = 0 THEN a
    ELSE ((a + b) % 2) + 2 * BitXor(a \div 2, b \div 2)

\* u32::to_be_bytes
to_be_bytes(v) == <<v[1] \div 256, v[1] % 256, v[2] \div 256, v[2] % 256>>

\* u32::saturating_add
saturating_add(v, s) ==
    LET r == AddL(v, s) IN IF r.carry = 1 THEN U32_MAX ELSE r.limbs

\* u32::saturating_sub
saturating_sub(v, s) ==
    LET r == SubL(v, s) IN IF r.borrow = 1 THEN U32_ZERO ELSE r.limbs

\* u32::saturating_mul: schoolbook product of the two byte strings.
saturating_mul(v, s) ==
    LET A == to_be_bytes(v)
        B == to_be_bytes(s)
        a(i) == A[4 - i]
        b(j) == B[4 - j]
        col(k) == LET term(i) == IF k - i \in 0..3 THEN a(i) * b(k - i) ELSE 0
                  IN term(0) + term(1) + term(2) + term(3)
        t0 == col(0)
        t1 == col(1) + (t0 \div 256)
        t2 == col(2) + (t1 \div 256)
        t3 == col(3) + (t2 \div 256)
        over == t3 >= 256 \/ col(4) # 0 \/ col(5) # 0 \/ col(6) # 0
    IN IF over THEN U32_MAX
       ELSE <<(t3 % 256) * 256 + (t2 % 256), (t1 % 256) * 256 + (t0 % 256)>>

\* bit i (0 = least significant) of a u32
BitOf(v, i) == IF i >= 16 THEN (v[1] \div (2 ^ (i - 16))) % 2 ELSE (v[2] \div (2 ^ i)) % 2

\* One step of binary long division, on values: the remainder r (3 limbs)
\* takes bit i of v, and the quotient q takes the next bit.
DivBit(v, s, i, st) ==
    LET r2 == AddL(AddL(st.r, st.r).limbs, <<0, 0, BitOf(v, i)>>).limbs
        s3 == <<0, s[1], s[2]>>
    IN IF LessL(r2, s3)
       THEN [q |-> AddL(st.q, st.q).limbs, r |-> r2]
       ELSE [q |-> AddL(AddL(st.q, st.q).limbs, <<0, 1>>).limbs,
             r |-> SubL(r2, s3).limbs]

\* Binary long division of u32 v by u32 s # 0, from bit i down: [q, r].
\* (Each step's result is bound as a value before the next step uses it.)
RECURSIVE DivStep(_, _, _, _)
DivStep(v, s, i, st) ==
    IF i < 0 THEN [q |-> st.q, r |-> <<st.r[2], st.r[3]>>]
    ELSE CHOOSE res \in {DivStep(v, s, i - 1, n) : n \in {DivBit(v, s, i, st)}} : TRUE

DivMod(v, s) == DivStep(v, s, 31, [q |-> U32_ZERO, r |-> <<0, 0, 0>>])

(***************************************************************************)
(* Directions (runner.rs).  A dir_layer byte holds a direction in its top  *)
(* 3 bits and a layer index in its low 5 bits.                             *)
(***************************************************************************)
DIR_UP_L == 32
DIR_DOWN_L == 192
DIR_LEFT == 128
DIR_RIGHT == 96
DIR_UP == 64
DIR_DOWN == 160

\* dir ^ 0b11100000
dir_rev(dir) == BitXor(dir, 224)

\* (a & 0b11100000) == (b & 0b11100000)
is_same_dir(a, b) == BitAnd(a, 224) = BitAnd(b, 224)

\* A faulty variant of is_side: the reverse of b is not looked at.
is_sideNotSame(a, b) == ~is_same_dir(a, b)

\* !(is_same_dir(a, b) || is_same_dir(a, dir_rev(b)))
is_side(a, b) == ~(is_same_dir(a, b) \/ is_same_dir(a, dir_rev(b)))

\* The u64 constants 1 and 1 << 32.
ONE_64 == <<0, 0, 0, 1>>
ONE_SHL_32 == <<0, 1, 0, 0>>

\* `*pos_chunk -= d` / `*pos_chunk += d` on a u64: with overflow checks (debug
\* profile) an overflow panics, without them (release profile) the value wraps.
ChunkSub(oc, pos_chunk, d) ==
    LET r == SubL(pos_chunk, d)
    IN [panic |-> oc /\ r.borrow = 1, chunk |-> r.limbs]

\* A faulty variant of ChunkAdd: without overflow checks the sum saturates.
ChunkAddSaturating(oc, pos_chunk, d) ==
    LET r == AddL(pos_chunk, d)
    IN [panic |-> oc /\ r.carry = 1,
        chunk |-> IF r.carry = 1 THEN <<65535, 65535, 65535, 65535>> ELSE r.limbs]

ChunkAdd(oc, pos_chunk, d) ==
    LET r == AddL(pos_chunk, d)
    IN [panic |-> oc /\ r.carry = 1, chunk |-> r.limbs]

\* pos_move: moves according to the first 3 bits of dir_layer.  The result
\* holds the three (possibly changed) arguments, ok = the returned bool, and
\* panic = the function panicked instead of returning.
pos_move(oc, dir_layer, pos_chunk, pos_inner) ==
    LET dir == BitAnd(dir_layer, 224)
        res(ok, dl, c, inner) ==
            [ok |-> ok /\ ~c.panic, panic |-> c.panic, dir_layer |-> dl,
             pos_chunk |-> c.chunk, pos_inner |-> inner]
        same == [panic |-> FALSE, chunk |-> pos_chunk]
    IN CASE dir = 128 ->   \* left
              IF BitAnd(pos_inner, 15) = 0
              THEN res(TRUE, dir_layer, ChunkSub(oc, pos_chunk, ONE_64),
                       BitOr(pos_inner, 15))
              ELSE res(TRUE, dir_layer, same, pos_inner - 1)
         [] dir = 96 ->    \* right
              IF BitAnd(pos_inner, 15) = 15
              THEN res(TRUE, dir_layer, ChunkAdd(oc, pos_chunk, ONE_64),
                       BitAnd(pos_inner, 240))
              ELSE res(TRUE, dir_layer, same, pos_inner + 1)
         [] dir = 64 ->    \* up
              IF BitAnd(pos_inner, 240) = 0
              THEN res(TRUE, dir_layer, ChunkSub(oc, pos_chunk, ONE_SHL_32),
                       BitOr(pos_inner, 240))
              ELSE res(TRUE, dir_layer, same, pos_inner - 16)
         [] dir = 160 ->   \* down
              IF BitAnd(pos_inner, 240) = 240
              THEN res(TRUE, dir_layer, ChunkAdd(oc, pos_chunk, ONE_SHL_32),
                       BitAnd(pos_inner, 15))
              ELSE res(TRUE, dir_layer, same, pos_inner + 16)
         [] dir = 32 ->    \* up (layer)
              IF BitAnd(dir_layer, 31) = 0
              THEN res(FALSE, dir_layer, same, pos_inner)
              ELSE res(TRUE, dir_layer - 1, same, pos_inner)
         [] dir = 192 ->   \* down (layer)
              IF BitAnd(dir_layer, 31) = 31
              THEN res(FALSE, dir_layer, same, pos_inner)
              ELSE res(TRUE, dir_layer + 1, same, pos_inner)
         [] OTHER -> res(FALSE, dir_layer, same, pos_inner)

\* A faulty variant of pos_moved: Some(..) whatever pos_move returned.
pos_movedAlways(oc, dir_layer, pos_chunk, pos_inner) ==
    [pos_move(oc, dir_layer, pos_chunk, pos_inner) EXCEPT
        !.ok = ~pos_move(oc, dir_layer, pos_chunk, pos_inner).panic]

\* pos_moved: same as pos_move on copies; ok = Some(..), ~ok = None.
pos_moved(oc, dir_layer, pos_chunk, pos_inner) ==
    pos_move(oc, dir_layer, pos_chunk, pos_inner)

(***************************************************************************)
(* World (world.rs).  A chunk is the tuple of its 256 stacks (stack         *)
(* pos_inner is element pos_inner + 1), a layer is a function from the     *)
(* keys of its materialised chunks, layers is the tuple of the 32 layers   *)
(* (layer l is element l + 1).  A block is a tuple headed by its variant:  *)
(*   <<"Color", c>>  <<"Char", c>>  <<"Delay", how_long, direction>>       *)
(*   <<"Storage", value, mode, direction>>  <<"Gate", open, direction>>    *)
(*   <<"Splitter", direction>>  <<"Move", direction>>  <<"Swap", direction>>*)
(* A signal is <<signal, dir_layer, pos_chunk, pos_inner>>.                *)
(***************************************************************************)
NumLayers == 32
ChunkLen == 256

\* create_empty_chunk: the array is taken uninitialised (assume_init) and every
\* one of its 256 items is written (ptr::write) before anything reads it, so
\* what a build returns is the array of 256 empty stacks.
create_empty_chunk == <<>> \o [i \in 1..ChunkLen |-> <<>>]

EmptyLayer == [c \in {} |-> create_empty_chunk]

\* World::new_empty().layers
new_empty_layers == <<>> \o [l \in 1..NumLayers |-> EmptyLayer]

\* Layer::get: Some(chunk) or None
get(layer, chunk) ==
    IF chunk \in DOMAIN layer THEN [some |-> TRUE, chunk |-> layer[chunk]]
    ELSE [some |-> FALSE]

\* A faulty variant of get_mut: the chunk is created anew at every call.
get_mut_anew(layer, chunk) == (chunk :> create_empty_chunk) @@ layer

\* Layer::get_mut's effect on the layer: the chunk is created if it doesn't exist.
get_mut(layer, chunk) ==
    IF chunk \in DOMAIN layer THEN layer
    ELSE (chunk :> create_empty_chunk) @@ layer

\* layers with layer l's chunk materialised
Materialise(ls, l, chunk) == [ls EXCEPT ![l + 1] = get_mut(ls[l + 1], chunk)]

\* The stack at (layer l, chunk, inner) after get_mut; ls must hold the chunk.
StackOf(ls, l, chunk, inner) == ls[l + 1][chunk][inner + 1]

SetStack(ls, l, chunk, inner, stack) ==
    [ls EXCEPT ![l + 1] = [@ EXCEPT ![chunk] = [@ EXCEPT ![inner + 1] = stack]]]

Last(stack) == stack[Len(stack)]
Pop(stack) == SubSeq(stack, 1, Len(stack) - 1)
\* A faulty variant of SetLast: the first element is overwritten.
SetLastAsFirst(stack, b) == [stack EXCEPT ![1] = b]

\* *stack.last_mut() = b
SetLast(stack, b) == [stack EXCEPT ![Len(stack)] = b]

\* `x as usize` / comparison of a u32 with a small count n
U32AtLeast(v, n) == v[1] > 0 \/ v[2] >= n
U32Small(v) == v[2]

\* World::signals_mut(delta_t): the queue grown to hold bucket delta_t.
RECURSIVE Grow(_, _)
Grow(q, n) == IF Len(q) >= n THEN q ELSE Grow(Append(q, <<>>), n)

signals_mut(q, delta_t) == Grow(q, delta_t + 1)

\* signals_mut(delta_t).push(s) / signals_queue[delta_t].push(s)
PushAt(q, delta_t, s) == [q EXCEPT ![delta_t + 1] = Append(@, s)]

(***************************************************************************)
(* Runner::tick (runner.rs).  Inside a tick the world is the record        *)
(*   [layers, queue, born, halt]                                           *)
(* where queue is signals_queue after pop_front, born is the history kept  *)
(* beside it, and halt says whether the tick is still running ("no"), has  *)
(* panicked ("panic"), or has left the model's bound MaxBuckets ("bound"). *)
(* A value that a rule uses more than once is handed on as an argument.    *)
(***************************************************************************)
Halt(w, how) == [w EXCEPT !.halt = how]

\* A faulty variant of Enqueue: the signal is put at the front of its bucket.
EnqueueAhead(w, grow, delta_t, s, b) ==
    [w EXCEPT !.queue = [(IF grow THEN signals_mut(@, delta_t) ELSE @)
                            EXCEPT ![delta_t + 1] = <<s>> \o @],
              !.born = [(IF grow THEN signals_mut(@, delta_t) ELSE @)
                            EXCEPT ![delta_t + 1] = <<b>> \o @]]

\* queue[delta_t].push(s), after signals_mut(delta_t) when grow is set; the
\* history born gets the matching entry b.
Enqueue(w, grow, delta_t, s, b) ==
    [w EXCEPT !.queue = PushAt(IF grow THEN signals_mut(@, delta_t) ELSE @, delta_t, s),
              !.born = PushAt(IF grow THEN signals_mut(@, delta_t) ELSE @, delta_t, b)]

\* The block on top of the target stack is overwritten by nb.
SetTop(w, l, chunk, inner, nb) ==
    [w EXCEPT !.layers = SetStack(@, l, chunk, inner,
                                  SetLast(StackOf(@, l, chunk, inner), nb))]

\* A faulty variant of PopFrom: a chunk whose last block is popped is removed
\* from its layer.
WithoutChunk(layer, chunk) == [k \in DOMAIN layer \ {chunk} |-> layer[k]]

PopFromPrunes(ls, l, chunk, inner) ==
    IF StackOf(ls, l, chunk, inner) = <<>> THEN [layers |-> ls, some |-> FALSE]
    ELSE [layers |->
              IF SetStack(ls, l, chunk, inner, <<>>)[l + 1][chunk] = create_empty_chunk
                 /\ Len(StackOf(ls, l, chunk, inner)) = 1
              THEN [ls EXCEPT ![l + 1] = WithoutChunk(@, chunk)]
              ELSE SetStack(ls, l, chunk, inner, Pop(StackOf(ls, l, chunk, inner))),
          some |-> TRUE, block |-> Last(StackOf(ls, l, chunk, inner))]

\* layers[l].get_mut(&chunk)[inner].pop() on layers that hold the chunk:
\* the layers left, and Some(block) or None.
PopFrom(ls, l, chunk, inner) ==
    IF StackOf(ls, l, chunk, inner) = <<>> THEN [layers |-> ls, some |-> FALSE]
    ELSE [layers |-> SetStack(ls, l, chunk, inner, Pop(StackOf(ls, l, chunk, inner))),
          some |-> TRUE, block |-> Last(StackOf(ls, l, chunk, inner))]

\* A faulty variant of pop: a chunk that is not there is not materialised.
popWithGet(ls, l, chunk, inner) ==
    IF chunk \in DOMAIN ls[l + 1] THEN PopFrom(ls, l, chunk, inner)
    ELSE [layers |-> ls, some |-> FALSE]

\* layers[l].get_mut(&chunk)[inner].pop()
pop(ls, l, chunk, inner) == PopFrom(Materialise(ls, l, chunk), l, chunk, inner)

\* layers[l].get_mut(&chunk)[inner].push(block) on layers that hold the chunk
PushOn(ls, l, chunk, inner, block) ==
    SetStack(ls, l, chunk, inner, Append(StackOf(ls, l, chunk, inner), block))

\* layers[l].get_mut(&chunk)[inner].push(block)
push(ls, l, chunk, inner, block) == PushOn(Materialise(ls, l, chunk), l, chunk, inner, block)

\* A faulty variant of Forward: the signal is pushed one bucket further on.
ForwardLate(w, m, grow, over, delta_t, signal, b) ==
    IF m.panic THEN Halt(w, "panic")
    ELSE IF ~m.ok THEN w
    ELSE IF over THEN Halt(w, "bound")
    ELSE Enqueue(w, TRUE, delta_t + 1, <<signal, m.dir_layer, m.pos_chunk, m.pos_inner>>, b)

\* `if pos_move(..) { queue.push((signal, dir_layer, pos_chunk, pos_inner)) }`,
\* m being what pos_move did: a panic ends the tick, false pushes nothing.
\* over: the bucket lies beyond the model's bound.
Forward(w, m, grow, over, delta_t, signal, b) ==
    IF m.panic THEN Halt(w, "panic")
    ELSE IF ~m.ok THEN w
    ELSE IF over THEN Halt(w, "bound")
    ELSE Enqueue(w, grow, delta_t, <<signal, m.dir_layer, m.pos_chunk, m.pos_inner>>, b)

\* A faulty variant of TickDelay: the forwarded signal is pushed into signals_queue[0],
\* as Storage and Gate do, whatever how_long is.
TickDelayNow(oc, tk, w, sig, block) ==
    IF is_side(block[3], sig[2])
    THEN SetTop(w, BitAnd(sig[2], 31), sig[3], sig[4], <<"Delay", sig[1], block[3]>>)
    ELSE Forward(w, pos_move(oc, sig[2], sig[3], sig[4]), FALSE, FALSE, 0, sig[1],
                 [by |-> "Delay", at |-> tk, delay |-> U32Small(block[2])])

\* A faulty variant of TickDelay: a side-signal sets how_long and is forwarded
\* as well, along the stored direction.
TickDelaySideForwards(oc, tk, w, sig, block) ==
    IF is_side(block[3], sig[2])
    THEN Forward(SetTop(w, BitAnd(sig[2], 31), sig[3], sig[4],
                        <<"Delay", sig[1], block[3]>>),
                 pos_move(oc, BitOr(block[3], BitAnd(sig[2], 31)), sig[3], sig[4]),
                 TRUE, U32AtLeast(sig[1], MaxBuckets), U32Small(sig[1]), sig[1],
                 [by |-> "Delay", at |-> tk, delay |-> U32Small(sig[1])])
    ELSE Forward(w, pos_move(oc, sig[2], sig[3], sig[4]),
                 TRUE, U32AtLeast(block[2], MaxBuckets), U32Small(block[2]), sig[1],
                 [by |-> "Delay", at |-> tk, delay |-> U32Small(block[2])])

\* Block::Delay(how_long, direction); sig = (signal, dir_layer, pos_chunk, pos_inner)
TickDelay(oc, tk, w, sig, block) ==
    IF is_side(block[3], sig[2])
    THEN SetTop(w, BitAnd(sig[2], 31), sig[3], sig[4], <<"Delay", sig[1], block[3]>>)
    ELSE Forward(w, pos_move(oc, sig[2], sig[3], sig[4]),
                 TRUE, U32AtLeast(block[2], MaxBuckets), U32Small(block[2]), sig[1],
                 [by |-> "Delay", at |-> tk, delay |-> U32Small(block[2])])

\* A faulty variant of StorageSide: mode 4 adds modulo 2^32, the other modes are kept.
StorageSideWrapping(value, mode, signal) ==
    IF mode = 4 THEN [panic |-> FALSE, value |-> AddL(value, signal).limbs]
    ELSE IF mode = 5 THEN [panic |-> FALSE, value |-> saturating_sub(value, signal)]
    ELSE IF mode = 6 THEN [panic |-> FALSE, value |-> saturating_mul(value, signal)]
    ELSE IF mode = 7
         THEN [panic |-> FALSE,
               value |-> IF signal = U32_ZERO THEN U32_MAX ELSE DivMod(value, signal).q]
    ELSE [panic |-> FALSE, value |-> value]

\* The match on mode of a Storage side-signal: [panic, value].
StorageSide(value, mode, signal) ==
    LET keep(v) == [panic |-> FALSE, value |-> v]
    IN CASE mode = 0 -> keep(signal)
         [] mode = 1 -> keep(<<BitOr(value[1], signal[1]), BitOr(value[2], signal[2])>>)
         [] mode = 2 -> keep(<<BitAnd(value[1], signal[1]), BitAnd(value[2], signal[2])>>)
         [] mode = 3 -> keep(<<BitXor(value[1], signal[1]), BitXor(value[2], signal[2])>>)
         [] mode = 4 -> keep(saturating_add(value, signal))
         [] mode = 5 -> keep(saturating_sub(value, signal))
         [] mode = 6 -> keep(saturating_mul(value, signal))
         [] mode = 7 -> keep(IF signal = U32_ZERO THEN U32_MAX
                             ELSE DivMod(value, signal).q)
         [] mode = 8 -> IF signal = U32_ZERO
                        THEN [panic |-> TRUE, value |-> value]  \* remainder by zero
                        ELSE keep(DivMod(value, signal).r)
         [] OTHER -> keep(value)

\* The side-signal branch of Storage, r being what the match on mode did.
StoreValue(w, sig, block, r) ==
    IF r.panic THEN Halt(w, "panic")
    ELSE SetTop(w, BitAnd(sig[2], 31), sig[3], sig[4],
                <<"Storage", r.value, block[3], block[4]>>)

\* signal.min(u8::MAX as _) as u8
ModeOf(signal) == IF U32AtLeast(signal, 255) THEN 255 ELSE U32Small(signal)

\* The condition under which a Storage block takes a signal that is not a
\* side-signal as its front-signal.
StorageFront(direction, dir_layer) == is_same_dir(direction, dir_layer)

\* Block::Storage(value, mode, direction)
TickStorage(oc, tk, w, sig, block) ==
    IF is_side(block[4], sig[2])
    THEN StoreValue(w, sig, block, StorageSide(block[2], block[3], sig[1]))
    ELSE IF StorageFront(block[4], sig[2])
         THEN Forward(SetTop(w, BitAnd(sig[2], 31), sig[3], sig[4],
                             <<"Storage", block[2], ModeOf(sig[1]), block[4]>>),
                      pos_move(oc, sig[2], sig[3], sig[4]), FALSE, FALSE, 0, block[2],
                      [by |-> "Storage", at |-> tk, delay |-> 0])
         ELSE w

\* A faulty variant of TickGate: an open Gate forwards along its stored direction,
\* whatever the direction of the arriving signal is.
TickGateOwnDir(oc, tk, w, sig, block) ==
    IF is_side(block[3], sig[2])
    THEN SetTop(w, BitAnd(sig[2], 31), sig[3], sig[4],
                <<"Gate", sig[1] = U32_ZERO, block[3]>>)
    ELSE IF block[2]
         THEN Forward(w, pos_move(oc, BitOr(block[3], BitAnd(sig[2], 31)), sig[3], sig[4]),
                      FALSE, FALSE, 0, sig[1], [by |-> "Gate", at |-> tk, delay |-> 0])
         ELSE w

\* A faulty variant of TickGate: a side-signal opens the Gate when its value is not 0.
TickGateInverted(oc, tk, w, sig, block) ==
    IF is_side(block[3], sig[2])
    THEN SetTop(w, BitAnd(sig[2], 31), sig[3], sig[4],
                <<"Gate", sig[1] # U32_ZERO, block[3]>>)
    ELSE IF block[2]
         THEN Forward(w, pos_move(oc, sig[2], sig[3], sig[4]), FALSE, FALSE, 0, sig[1],
                      [by |-> "Gate", at |-> tk, delay |-> 0])
         ELSE w

\* Block::Gate(open, direction)
TickGate(oc, tk, w, sig, block) ==
    IF is_side(block[3], sig[2])
    THEN SetTop(w, BitAnd(sig[2], 31), sig[3], sig[4],
                <<"Gate", sig[1] = U32_ZERO, block[3]>>)
    ELSE IF block[2]
         THEN Forward(w, pos_move(oc, sig[2], sig[3], sig[4]), FALSE, FALSE, 0, sig[1],
                      [by |-> "Gate", at |-> tk, delay |-> 0])
         ELSE w

\* Block::Splitter(direction): the match in tick has no arm that acts on it.
TickSplitter(oc, tk, w, sig, block) == w

\* The dir_layer bytes a Move or Swap block hands to pos_moved:
\* dir_layer_in_front and dir_layer_behind.
DirLayerInFront(direction, layer) == BitOr(dir_rev(direction), layer)
DirLayerBehind(direction, layer) == BitOr(direction, layer)

\* A faulty variant of MoveOrigin: the popped block is not pushed anywhere.
MoveOriginDropped(w, b, p) == [w EXCEPT !.layers = p.layers]

\* Move, after the pop from a's stack (p): origin, if any, is pushed on b's.
MoveOrigin(w, b, p) ==
    IF p.some
    THEN [w EXCEPT !.layers = push(p.layers, BitAnd(b.dir_layer, 31), b.pos_chunk,
                                   b.pos_inner, p.block)]
    ELSE [w EXCEPT !.layers = p.layers]

\* Move, a and b being what the two calls of pos_moved gave.
MoveFromTo(w, a, b) ==
    IF a.panic \/ b.panic THEN Halt(w, "panic")
    ELSE IF ~(a.ok /\ b.ok) THEN w
    ELSE MoveOrigin(w, b, pop(w.layers, BitAnd(a.dir_layer, 31), a.pos_chunk, a.pos_inner))

\* Block::Move(direction)
TickMove(oc, tk, w, sig, block) ==
    IF ~is_side(block[2], sig[2]) THEN w
    ELSE IF sig[1] = U32_ZERO
         THEN MoveFromTo(w,
                  pos_moved(oc, DirLayerBehind(block[2], BitAnd(sig[2], 31)), sig[3], sig[4]),
                  pos_moved(oc, DirLayerInFront(block[2], BitAnd(sig[2], 31)), sig[3], sig[4]))
         ELSE MoveFromTo(w,
                  pos_moved(oc, DirLayerInFront(block[2], BitAnd(sig[2], 31)), sig[3], sig[4]),
                  pos_moved(oc, DirLayerBehind(block[2], BitAnd(sig[2], 31)), sig[3], sig[4]))

\* A faulty variant of SwapSecond: when b's stack has no last element the
\* popped block is not pushed back on a's stack.
SwapSecondLoses(w, a, b, first, ls) ==
    IF StackOf(ls, BitAnd(b.dir_layer, 31), b.pos_chunk, b.pos_inner) = <<>>
    THEN [w EXCEPT !.layers = ls]
    ELSE [w EXCEPT !.layers =
             push(SetStack(ls, BitAnd(b.dir_layer, 31), b.pos_chunk, b.pos_inner,
                           SetLast(StackOf(ls, BitAnd(b.dir_layer, 31), b.pos_chunk,
                                           b.pos_inner), first)),
                  BitAnd(a.dir_layer, 31), a.pos_chunk, a.pos_inner,
                  Last(StackOf(ls, BitAnd(b.dir_layer, 31), b.pos_chunk, b.pos_inner)))]

\* Swap, on layers ls that hold b's chunk: std::mem::swap(second, &mut first)
\* when b's stack has a last element, then the remaining value is pushed on a's.
SwapSecond(w, a, b, first, ls) ==
    IF StackOf(ls, BitAnd(b.dir_layer, 31), b.pos_chunk, b.pos_inner) = <<>>
    THEN [w EXCEPT !.layers = push(ls, BitAnd(a.dir_layer, 31), a.pos_chunk, a.pos_inner,
                                   first)]
    ELSE [w EXCEPT !.layers =
             push(SetStack(ls, BitAnd(b.dir_layer, 31), b.pos_chunk, b.pos_inner,
                           SetLast(StackOf(ls, BitAnd(b.dir_layer, 31), b.pos_chunk,
                                           b.pos_inner), first)),
                  BitAnd(a.dir_layer, 31), a.pos_chunk, a.pos_inner,
                  Last(StackOf(ls, BitAnd(b.dir_layer, 31), b.pos_chunk, b.pos_inner)))]

\* Swap, after the pop from a's stack (p).
SwapFirst(w, a, b, p) ==
    IF p.some
    THEN SwapSecond(w, a, b, p.block,
                    Materialise(p.layers, BitAnd(b.dir_layer, 31), b.pos_chunk))
    ELSE [w EXCEPT !.layers = p.layers]

\* Swap, a and b being what the two calls of pos_moved gave.
SwapBetween(w, a, b) ==
    IF a.panic \/ b.panic THEN Halt(w, "panic")
    ELSE IF ~(a.ok /\ b.ok) THEN w
    ELSE SwapFirst(w, a, b,
                   pop(w.layers, BitAnd(a.dir_layer, 31), a.pos_chunk, a.pos_inner))

\* Block::Swap(direction)
TickSwap(oc, tk, w, sig, block) ==
    IF ~is_side(block[2], sig[2]) THEN w
    ELSE SwapBetween(w,
             pos_moved(oc, DirLayerInFront(block[2], BitAnd(sig[2], 31)), sig[3], sig[4]),
             pos_moved(oc, DirLayerBehind(block[2], BitAnd(sig[2], 31)), sig[3], sig[4]))

\* A faulty variant of MatchBlock: a Char block takes only the signals that
\* arrive from above or below (along the layer axis).
MatchBlockCharFromAbove(oc, tk, w, sig, block) ==
    CASE block[1] = "Color" ->
             SetTop(w, BitAnd(sig[2], 31), sig[3], sig[4], <<"Color", sig[1]>>)
      [] block[1] = "Char" ->
             IF is_side(DIR_DOWN_L, sig[2]) THEN w
             ELSE SetTop(w, BitAnd(sig[2], 31), sig[3], sig[4], <<"Char", sig[1]>>)
      [] block[1] = "Delay" -> TickDelay(oc, tk, w, sig, block)
      [] block[1] = "Storage" -> TickStorage(oc, tk, w, sig, block)
      [] block[1] = "Gate" -> TickGate(oc, tk, w, sig, block)
      [] block[1] = "Splitter" -> TickSplitter(oc, tk, w, sig, block)
      [] block[1] = "Move" -> TickMove(oc, tk, w, sig, block)
      [] block[1] = "Swap" -> TickSwap(oc, tk, w, sig, block)

\* `match block`, block being the last element of the target stack.
MatchBlock(oc, tk, w, sig, block) ==
    CASE block[1] = "Color" ->
             SetTop(w, BitAnd(sig[2], 31), sig[3], sig[4], <<"Color", sig[1]>>)
      [] block[1] = "Char" ->
             SetTop(w, BitAnd(sig[2], 31), sig[3], sig[4], <<"Char", sig[1]>>)
      [] block[1] = "Delay" -> TickDelay(oc, tk, w, sig, block)
      [] block[1] = "Storage" -> TickStorage(oc, tk, w, sig, block)
      [] block[1] = "Gate" -> TickGate(oc, tk, w, sig, block)
      [] block[1] = "Splitter" -> TickSplitter(oc, tk, w, sig, block)
      [] block[1] = "Move" -> TickMove(oc, tk, w, sig, block)
      [] block[1] = "Swap" -> TickSwap(oc, tk, w, sig, block)

\* A faulty variant of OnLast: a signal that finds no block ends the tick, as
\* `last_mut().unwrap()` would.
OnLastUnwrap(oc, tk, w, sig) ==
    IF StackOf(w.layers, BitAnd(sig[2], 31), sig[3], sig[4]) = <<>> THEN Halt(w, "panic")
    ELSE MatchBlock(oc, tk, w, sig,
                    Last(StackOf(w.layers, BitAnd(sig[2], 31), sig[3], sig[4])))

\* `if let Some(block) = chunk[pos_inner].last_mut()`, in a world that holds
\* the target chunk.
OnLast(oc, tk, w, sig) ==
    IF StackOf(w.layers, BitAnd(sig[2], 31), sig[3], sig[4]) = <<>> THEN w
    ELSE MatchBlock(oc, tk, w, sig,
                    Last(StackOf(w.layers, BitAnd(sig[2], 31), sig[3], sig[4])))

\* The body of the for loop of tick for one signal: the target chunk is
\* materialised, and the block on top of the target stack (if any) acts.
ProcessSignal(oc, tk, w, sig) ==
    OnLast(oc, tk, [w EXCEPT !.layers = Materialise(@, BitAnd(sig[2], 31), sig[3])], sig)

(***************************************************************************)
(* What one signal did, read off the world before and after it.            *)
(***************************************************************************)
NoBlock == <<"None">>

StackAt(ls, l, chunk, inner) ==
    IF chunk \in DOMAIN ls[l + 1] THEN ls[l + 1][chunk][inner + 1] ELSE <<>>

TopAt(ls, l, chunk, inner) ==
    LET st == StackAt(ls, l, chunk, inner) IN IF st = <<>> THEN NoBlock ELSE Last(st)

\* The stacks that differ between the layers pre and post.
Changed(pre, post) ==
    UNION {UNION {{[l |-> l, chunk |-> c, inner |-> i,
                    pre |-> StackAt(pre, l, c, i), post |-> post[l + 1][c][i + 1]] :
                        i \in {j \in 0..(ChunkLen - 1) :
                                  StackAt(pre, l, c, j) # post[l + 1][c][j + 1]}} :
                  c \in {k \in DOMAIN post[l + 1] :
                            k \notin DOMAIN pre[l + 1] \/ pre[l + 1][k] # post[l + 1][k]}} :
           l \in {m \in 0..(NumLayers - 1) : pre[m + 1] # post[m + 1]}}

\* The chunks materialised between pre and post.
Created(pre, post) ==
    UNION {{<<l, c>> : c \in DOMAIN post[l + 1] \ DOMAIN pre[l + 1]} :
           l \in 0..(NumLayers - 1)}

\* The signals pushed between the queues qpre and qpost: bucket index (at),
\* position in the bucket (ix), the signal.
Enqueued(qpre, qpost) ==
    UNION {{[at |-> k - 1, ix |-> j, sig |-> qpost[k][j]] :
               j \in ((IF k <= Len(qpre) THEN Len(qpre[k]) ELSE 0) + 1)..Len(qpost[k])} :
           k \in 1..Len(qpost)}

\* Nothing that was queued before was dropped, moved or changed.
QueueKept(qpre, qpost) ==
    /\ Len(qpre) <= Len(qpost)
    /\ \A k \in 1..Len(qpre) :
          /\ Len(qpre[k]) <= Len(qpost[k])
          /\ SubSeq(qpost[k], 1, Len(qpre[k])) = qpre[k]

LogEntry(tk, sig, b, pre, post) ==
    [tk |-> tk, sig |-> sig, born |-> b,
     top |-> TopAt(pre.layers, BitAnd(sig[2], 31), sig[3], sig[4]),
     after |-> TopAt(post.layers, BitAnd(sig[2], 31), sig[3], sig[4]),
     enq |-> Enqueued(pre.queue, post.queue),
     kept |-> QueueKept(pre.queue, post.queue),
     changed |-> Changed(pre.layers, post.layers),
     created |-> Created(pre.layers, post.layers),
     halt |-> post.halt]

\* One signal's entry appended to the log, post being the world it left.
Logged(tk, sig, b, acc, post) ==
    [w |-> post, log |-> Append(acc.log, LogEntry(tk, sig, b, acc.w, post))]

\* The for loop of tick over the popped bucket, from signal i on: the world
\* and the log of what each signal did.  A panic ends the loop.
RECURSIVE RunSignals(_, _, _, _, _, _)
RunSignals(oc, tk, bucket, bornbucket, i, acc) ==
    IF i > Len(bucket) \/ acc.w.halt # "no" THEN acc
    ELSE RunSignals(oc, tk, bucket, bornbucket, i + 1,
                    Logged(tk, bucket[i], bornbucket[i], acc,
                           ProcessSignal(oc, tk, acc.w, bucket[i])))

\* A faulty variant of PopFront: the loop runs over the first bucket while it
\* is still in the queue, and the bucket is popped after the loop.
RECURSIVE RunInPlace(_, _, _, _)
RunInPlace(oc, tk, i, acc) ==
    IF i > Len(acc.w.queue[1]) \/ acc.w.halt # "no" THEN acc
    ELSE RunInPlace(oc, tk, i + 1,
                    Logged(tk, acc.w.queue[1][i], acc.w.born[1][i], acc,
                           ProcessSignal(oc, tk, acc.w, acc.w.queue[1][i])))

PoppedAfter(r) ==
    [w |-> [r.w EXCEPT !.queue = Tail(@), !.born = Tail(@)], log |-> r.log]

PopFrontInPlace(oc, tk, ls, q, h) ==
    PoppedAfter(RunInPlace(oc, tk, 1,
                           [w |-> [layers |-> ls, queue |-> q, born |-> h, halt |-> "no"],
                            log |-> <<>>]))

\* A faulty variant of PopFront: the loop takes the popped bucket from its last
\* signal to its first.
Reversed(b) == <<>> \o [i \in 1..Len(b) |-> b[Len(b) + 1 - i]]

PopFrontReversed(oc, tk, ls, q, h) ==
    RunSignals(oc, tk, Reversed(Head(q)), Reversed(Head(h)), 1,
               [w |-> [layers |-> ls, queue |-> Tail(q), born |-> Tail(h), halt |-> "no"],
                log |-> <<>>])

\* pop_front().unwrap() and the loop over the popped bucket
PopFront(oc, tk, ls, q, h) ==
    RunSignals(oc, tk, Head(q), Head(h), 1,
               [w |-> [layers |-> ls, queue |-> Tail(q), born |-> Tail(h), halt |-> "no"],
                log |-> <<>>])

\* `if self.world.signals_queue.len() < 2 { ..push_back(vec![]) }`: the queue
\* as it is when tick pops its first bucket.
WithSecondBucket(q) == IF Len(q) < 2 THEN Append(q, <<>>) ELSE q

\* Runner::tick, as a function of the world: the queue gets a second bucket
\* if it has fewer than two, the first bucket is popped and run.
tick(oc, tk, ls, q, h) ==
    PopFront(oc, tk, ls, WithSecondBucket(q), WithSecondBucket(h))

(***************************************************************************)
(* Addressing (world.rs).  Tile coordinates are i64 in the program; the    *)
(* model's tiles are small, so that `as i32` keeps the chunk coordinate.   *)
(***************************************************************************)
\* Rust's % on i64: the remainder takes the sign of the dividend.
RustRem(a, b) == IF a >= 0 THEN a % b ELSE -((-a) % b)

\* (n as i32).to_ne_bytes() read back as u32: two's complement
I32AsU32(n) ==
    IF n >= 0 THEN <<n \div Limb, n % Limb>>
    ELSE <<(Limb - 1) - ((-n - 1) \div Limb), (Limb - 1) - ((-n - 1) % Limb)>>

\* The chunk coordinate computed by get_where for one axis.
ChunkCoord(x) == IF x < 0 THEN -((-x - 1) \div 16) - 1 ELSE x \div 16

\* Layer::get_where: (chunk, inchunk)
get_where(x, y) ==
    LET x2 == I32AsU32(ChunkCoord(x))
        y2 == I32AsU32(ChunkCoord(y))
        chunk == <<y2[1], y2[2], x2[1], x2[2]>>
        inchunk == BitOr(RustRem(RustRem(y, 16) + 16, 16) * 16,
                         RustRem(RustRem(x, 16) + 16, 16))
    IN <<chunk, inchunk>>

\* runner.world.layers[layer].get_mut(&chunk)[pos].push(block): the client
\* (and any other placement tool) putting a block on top of the tile's stack.
PushBlock(ls, l, x, y, block) ==
    push(ls, l, get_where(x, y)[1], get_where(x, y)[2], block)

(***************************************************************************)
(* Addressing at full width.  An i64 is a sequence of four limbs in two's  *)
(* complement; get_where64 is get_where on such tile coordinates, with the *)
(* overflow of each of its operations.                                     *)
(***************************************************************************)
I64_ZERO == <<0, 0, 0, 0>>
I64_MIN == <<32768, 0, 0, 0>>
I64_MAX == <<32767, 65535, 65535, 65535>>

\* i64::is_negative
is_negative(x) == x[1] >= 32768

\* The i64 of a small integer n.
I64(n) == IF n >= 0 THEN <<0, 0, n \div Limb, n % Limb>>
          ELSE <<Limb - 1, Limb - 1>> \o I32AsU32(n)

\* `-x` on an i64: overflows for i64::MIN only.
Neg64(oc, x) == [panic |-> oc /\ x = I64_MIN, v |-> SubL(I64_ZERO, x).limbs]

\* `a - 1` on an i64: overflows for i64::MIN only.
Dec64(oc, a) == [panic |-> oc /\ a = I64_MIN, v |-> SubL(a, ONE_64).limbs]

\* `a / 16` on an i64 that is not negative
Div16(a) ==
    <<a[1] \div 16, ((a[1] % 16) * 4096) + (a[2] \div 16),
      ((a[2] % 16) * 4096) + (a[3] \div 16), ((a[3] % 16) * 4096) + (a[4] \div 16)>>

\* `a * 16` on an i64 below 2^59
Mul16(a) ==
    <<((a[1] * 16) % Limb) + (a[2] \div 4096), ((a[2] * 16) % Limb) + (a[3] \div 4096),
      ((a[3] * 16) % Limb) + (a[4] \div 4096), (a[4] * 16) % Limb>>

\* `x % 16` on an i64, as a small integer: the sign is that of x.
Rem16(x) == IF is_negative(x) THEN -((16 - (x[4] % 16)) % 16) ELSE x[4] % 16

\* `-((-x - 1) / 16) - 1`, step by step: n = -x, d = n - 1, q = -(d / 16).
CoordFromQ(d, q) == [panic |-> q.panic, v |-> Dec64(FALSE, q.v).v]
CoordFromD(oc, n, d) ==
    IF n.panic \/ d.panic THEN [panic |-> TRUE, v |-> I64_ZERO]
    ELSE CoordFromQ(d, Neg64(oc, Div16(d.v)))
CoordFromN(oc, n) == CoordFromD(oc, n, Dec64(oc, n.v))

\* A faulty variant of ChunkCoord64: the quotient is rounded toward zero.
ChunkCoord64Truncating(oc, x) ==
    IF is_negative(x)
    THEN [panic |-> oc /\ x = I64_MIN, v |-> Neg64(FALSE, Div16(Neg64(FALSE, x).v)).v]
    ELSE [panic |-> FALSE, v |-> Div16(x)]

\* The chunk coordinate of get_where for one axis, before `as i32`.
ChunkCoord64(oc, x) ==
    IF is_negative(x) THEN CoordFromN(oc, Neg64(oc, x))
    ELSE [panic |-> FALSE, v |-> Div16(x)]

\* Layer::get_where on i64 coordinates: [panic, chunk, inchunk]; `as i32`
\* keeps the two low limbs of a chunk coordinate.
WhereFrom(cx, cy, x, y) ==
    [panic |-> cx.panic \/ cy.panic,
     chunk |-> <<cy.v[3], cy.v[4], cx.v[3], cx.v[4]>>,
     inchunk |-> BitOr(RustRem(Rem16(y) + 16, 16) * 16, RustRem(Rem16(x) + 16, 16))]

get_where64(oc, x, y) == WhereFrom(ChunkCoord64(oc, x), ChunkCoord64(oc, y), x, y)

\* The client's signal overlay: the tile (x, y) of a queued signal's
\* pos_chunk and pos_inner, chunk_x and chunk_y being the halves of the key
\* read as u64 and taken as i64.
OverlayTile(chunk, pos) ==
    [x |-> AddL(Mul16(<<0, 0, chunk[3], chunk[4]>>), I64(pos % 16)).limbs,
     y |-> AddL(Mul16(<<0, 0, chunk[1], chunk[2]>>), I64(pos \div 16)).limbs]

(***************************************************************************)
(* The codec (world.rs, trait SaveLoad).  A file is a sequence of bytes.    *)
(* save_* give the bytes a save appends; load(kind, src, pos) reads a      *)
(* value of the type named kind from the byte iterator src, whose next     *)
(* byte is src[pos], and gives                                             *)
(*   Some(v, pos')  the value and the position after it,                   *)
(*   NoValue        None (the iterator ran out, or an unknown tag),        *)
(*   Panicked       a panic inside the load.                               *)
(* The kinds are the types the program loads: "Block", "stack"             *)
(* (Vec<Block>), "signal" ((u32, u8, u64, u8)), "bucket" (Vec of signals), *)
(* "queue" (VecDeque of buckets), "chunk" ((u64, [Vec<Block>; 256]) inside *)
(* Layer::load) and "Layer".                                               *)
(***************************************************************************)
save_u8(b) == <<b>>

\* A faulty variant of save_u32: least significant byte first.
save_u32LittleEndian(v) == <<v[2] % 256, v[2] \div 256, v[1] % 256, v[1] \div 256>>

\* buf.extend_from_slice(&self.to_be_bytes())
save_u32(v) == to_be_bytes(v)

save_u64(k) == to_be_bytes(<<k[1], k[2]>>) \o to_be_bytes(<<k[3], k[4]>>)

\* (*self as u64).save(buf), for a length n < 2^31
save_usize(n) == save_u64(<<0, 0, n \div Limb, n % Limb>>)

\* The concatenation of the byte sequences ss[lo], ..., ss[hi], by halves.
RECURSIVE Concat(_, _, _)
Concat(ss, lo, hi) ==
    IF lo > hi THEN <<>>
    ELSE IF lo = hi THEN ss[lo]
    ELSE Concat(ss, lo, (lo + hi) \div 2) \o Concat(ss, ((lo + hi) \div 2) + 1, hi)

save_Block(b) ==
    CASE b[1] = "Color" -> save_u8(99) \o save_u32(b[2])
      [] b[1] = "Char" -> save_u8(67) \o save_u32(b[2])
      [] b[1] = "Delay" -> save_u8(100) \o save_u32(b[2]) \o save_u8(b[3])
      [] b[1] = "Storage" -> save_u8(115) \o save_u32(b[2]) \o save_u8(b[3]) \o save_u8(b[4])
      [] b[1] = "Gate" -> save_u8(103) \o save_u8(IF b[2] THEN BitOr(b[3], 1) ELSE b[3])
      [] b[1] = "Splitter" -> save_u8(71) \o save_u8(b[2])
      [] b[1] = "Move" -> save_u8(109) \o save_u8(b[2])
      [] b[1] = "Swap" -> save_u8(77) \o save_u8(b[2])

\* (A, B, C, D)::save for a signal
save_signal(s) == save_u32(s[1]) \o save_u8(s[2]) \o save_u64(s[3]) \o save_u8(s[4])

\* Vec<Block>::save: the length, then every item
save_stack(blocks) ==
    save_usize(Len(blocks))
        \o Concat([i \in 1..Len(blocks) |-> save_Block(blocks[i])], 1, Len(blocks))

\* Vec<(u32, u8, u64, u8)>::save
save_bucket(signals) ==
    save_usize(Len(signals))
        \o Concat([i \in 1..Len(signals) |-> save_signal(signals[i])], 1, Len(signals))

\* VecDeque<Vec<(u32, u8, u64, u8)>>::save
save_VecDeque(queue) ==
    save_usize(Len(queue))
        \o Concat([i \in 1..Len(queue) |-> save_bucket(queue[i])], 1, Len(queue))

\* One turn of the loop of Layer::save: the key, then the 256 stacks.
save_chunk(pos, chunk) ==
    save_u64(pos) \o Concat([i \in 1..ChunkLen |-> save_stack(chunk[i])], 1, ChunkLen)

\* Layer::save.  order is the order in which self.chunks.iter() yields the
\* keys of the layer: some enumeration of them.
save_Layer(layer, order) ==
    save_usize(Cardinality(DOMAIN layer))
        \o Concat([i \in 1..Len(order) |-> save_chunk(order[i], layer[order[i]])], 1, Len(order))

\* The enumerations of the finite set S.
Enumerations(S) ==
    {o \in [1..Cardinality(S) -> S] : \A i, j \in 1..Cardinality(S) : o[i] = o[j] => i = j}

Some(v, pos) == [ok |-> TRUE, panic |-> FALSE, v |-> v, pos |-> pos]
NoValue == [ok |-> FALSE, panic |-> FALSE, v |-> <<>>, pos |-> 0]
Panicked == [ok |-> FALSE, panic |-> TRUE, v |-> <<>>, pos |-> 0]

\* u32::from_be_bytes of the four bytes from src[pos] on
from_be_bytes(src, pos) ==
    <<(src[pos] * 256) + src[pos + 1], (src[pos + 2] * 256) + src[pos + 3]>>

\* u64::load: eight times src.next()?
load_u64(src, pos) ==
    IF pos + 7 > Len(src) THEN NoValue
    ELSE Some(from_be_bytes(src, pos) \o from_be_bytes(src, pos + 4), pos + 8)

\* Block::load after the tag: the fields, read with `?` one after the other.
load_Color(src, pos) ==
    IF pos + 3 > Len(src) THEN NoValue ELSE Some(<<"Color", from_be_bytes(src, pos)>>, pos + 4)

load_Char(src, pos) ==
    IF pos + 3 > Len(src) THEN NoValue ELSE Some(<<"Char", from_be_bytes(src, pos)>>, pos + 4)

load_Delay(src, pos) ==
    IF pos + 4 > Len(src) THEN NoValue
    ELSE Some(<<"Delay", from_be_bytes(src, pos), src[pos + 4]>>, pos + 5)

load_Storage(src, pos) ==
    IF pos + 5 > Len(src) THEN NoValue
    ELSE Some(<<"Storage", from_be_bytes(src, pos), src[pos + 4], src[pos + 5]>>, pos + 6)

\* A faulty variant of load_Gate: the flag stays in the direction byte.
load_GateWithFlag(src, pos) ==
    IF pos > Len(src) THEN NoValue
    ELSE Some(<<"Gate", BitAnd(src[pos], 1) = 1, src[pos]>>, pos + 1)

load_Gate(src, pos) ==
    IF pos > Len(src) THEN NoValue
    ELSE IF BitAnd(src[pos], 1) = 1
         THEN Some(<<"Gate", TRUE, BitXor(src[pos], 1)>>, pos + 1)
         ELSE Some(<<"Gate", FALSE, src[pos]>>, pos + 1)

load_Dir(variant, src, pos) ==
    IF pos > Len(src) THEN NoValue ELSE Some(<<variant, src[pos]>>, pos + 1)

load_Block(src, pos) ==
    IF pos > Len(src) THEN NoValue
    ELSE CASE src[pos] = 99 -> load_Color(src, pos + 1)
           [] src[pos] = 67 -> load_Char(src, pos + 1)
           [] src[pos] = 100 -> load_Delay(src, pos + 1)
           [] src[pos] = 115 -> load_Storage(src, pos + 1)
           [] src[pos] = 103 -> load_Gate(src, pos + 1)
           [] src[pos] = 71 -> load_Dir("Splitter", src, pos + 1)
           [] src[pos] = 109 -> load_Dir("Move", src, pos + 1)
           [] src[pos] = 77 -> load_Dir("Swap", src, pos + 1)
           [] OTHER -> NoValue

\* (A, B, C, D)::load for a signal
load_signal(src, pos) ==
    IF pos + 13 > Len(src) THEN NoValue
    ELSE Some(<<from_be_bytes(src, pos), src[pos + 4],
                from_be_bytes(src, pos + 5) \o from_be_bytes(src, pos + 9), src[pos + 13]>>,
              pos + 14)

\* A length the loops of the model can count: below 2^31.
Countable(len) == len[1] = 0 /\ len[2] = 0 /\ len[3] < 32768

\* usize::load, then with_capacity(len): the length as a number.
\* with_capacity of Vec, VecDeque and HashMap panics ("capacity overflow")
\* when len items need more than isize::MAX bytes, which is so for every
\* len >= 2^63 whatever the item type.  A length from 2^31 up to 2^63 (for
\* which the allocation can fail, ending the process, or the loop can run
\* into the end of src) is taken with the overflowing ones; no file of the
\* model holds one.
WithCapacity(r) ==
    IF ~r.ok THEN NoValue
    ELSE IF Countable(r.v) THEN Some((r.v[3] * Limb) + r.v[4], r.pos)
    ELSE Panicked

\* chunks.insert(pos, chunk) for every loaded (pos, chunk), in order
RECURSIVE InsertAll(_, _, _)
InsertAll(chunks, entries, i) ==
    IF i > Len(entries) THEN chunks
    ELSE InsertAll([k \in DOMAIN chunks \cup {entries[i][1]} |->
                       IF k = entries[i][1] THEN entries[i][2] ELSE chunks[k]],
                   entries, i + 1)

RECURSIVE load(_, _, _)
RECURSIVE LoadN(_, _, _, _)
RECURSIVE LoadRest(_, _, _, _)

\* Some(<<v>>, ..) of Some(v, ..)
LoadOne(r) == IF ~r.ok THEN r ELSE Some(<<r.v>>, r.pos)

\* A faulty variant of LoadJoin: the later items come first.
LoadJoinReversed(left, right) ==
    IF ~right.ok THEN right ELSE Some(right.v \o left.v, right.pos)

LoadJoin(left, right) == IF ~right.ok THEN right ELSE Some(left.v \o right.v, right.pos)

\* `for _ in 0..n { o.push(SaveLoad::load(src)?) }`: the n items from
\* src[pos] on, or the first failure.  The n turns are taken as the first
\* n / 2 of them followed by the others.
LoadN(kind, src, pos, n) ==
    IF n = 0 THEN Some(<<>>, pos)
    ELSE IF n = 1 THEN LoadOne(load(kind, src, pos))
    ELSE LoadRest(kind, src, LoadN(kind, src, pos, n \div 2), n - (n \div 2))

LoadRest(kind, src, left, n) ==
    IF ~left.ok THEN left ELSE LoadJoin(left, LoadN(kind, src, left.pos, n))

\* A faulty variant of LoadItems: when an item fails, what there is so far
\* (nothing) is returned.
LoadItemsSoFar(kind, src, len) ==
    IF ~len.ok THEN len
    ELSE IF LoadN(kind, src, len.pos, len.v).ok THEN LoadN(kind, src, len.pos, len.v)
    ELSE Some(<<>>, Len(src) + 1)

\* Vec<C>::load and VecDeque<C>::load after the length
LoadItems(kind, src, len) ==
    IF ~len.ok THEN len ELSE LoadN(kind, src, len.pos, len.v)

\* One turn of the loop of Layer::load: the key, then the 256 stacks.
LoadStacks(key, stacks) ==
    IF ~stacks.ok THEN stacks ELSE Some(<<key.v, stacks.v>>, stacks.pos)

LoadChunk(src, key) ==
    IF ~key.ok THEN key ELSE LoadStacks(key, LoadN("stack", src, key.pos, ChunkLen))

\* Layer::load after the loop: Some(Self { chunks })
LoadedLayer(entries) ==
    IF ~entries.ok THEN entries ELSE Some(InsertAll(<<>>, entries.v, 1), entries.pos)

load(kind, src, pos) ==
    CASE kind = "Block" -> load_Block(src, pos)
      [] kind = "signal" -> load_signal(src, pos)
      [] kind = "stack" -> LoadItems("Block", src, WithCapacity(load_u64(src, pos)))
      [] kind = "bucket" -> LoadItems("signal", src, WithCapacity(load_u64(src, pos)))
      [] kind = "queue" -> LoadItems("bucket", src, WithCapacity(load_u64(src, pos)))
      [] kind = "chunk" -> LoadChunk(src, load_u64(src, pos))
      [] kind = "Layer" -> LoadedLayer(LoadItems("chunk", src, WithCapacity(load_u64(src, pos))))

\* The order in which the layer's HashMap yields its keys, taken from one
\* enumeration o of all keys.
IterOrder(o, layer) == SelectSeq(o, LAMBDA k : k \in DOMAIN layer)

\* The keys of all chunks of all layers.
AllKeys(ls) == UNION {DOMAIN ls[l] : l \in 1..NumLayers}

\* World::save_to_dir when every file could be written: the files' contents.
save_to_dir(ls, queue, o) ==
    [signals |-> save_VecDeque(queue),
     layer |-> <<>> \o [l \in 1..NumLayers |-> save_Layer(ls[l], IterOrder(o, ls[l]))]]

\* What load_from_dir returns or does.
IoError == [kind |-> "Err"]
DecodePanic == [kind |-> "panic"]
OkNone == [kind |-> "None"]
OkSome(ls, queue) == [kind |-> "Some", layers |-> ls, signals_queue |-> queue]

\* The files of a world directory, numbered in the order load_from_dir
\* goes through them: 1 is signals, l + 2 is layer_l.
NumFiles == NumLayers + 1

FileResult(r) ==
    IF r.panic THEN DecodePanic ELSE IF ~r.ok THEN OkNone ELSE [kind |-> "ok", v |-> r.v]

\* What load_from_dir gets of file f when it comes to it.  io names the file
\* that cannot be opened or read (0: none).
LoadFile(files, io, f) ==
    IF io = f THEN IoError
    ELSE IF f = 1 THEN FileResult(load("queue", files.signals, 1))
    ELSE FileResult(load("Layer", files.layer[f - 1], 1))

\* The first file that was not read and decoded; NumFiles + 1 if all were.
FirstFailed(out) ==
    CHOOSE f \in 1..(NumFiles + 1) :
        /\ \A g \in 1..(f - 1) : out[g].kind = "ok"
        /\ f <= NumFiles => out[f].kind # "ok"

\* A faulty variant of Returned: when a layer file gives no value, the world
\* of the files decoded before it is returned.
ReturnedSoFar(out, f) ==
    IF f > NumFiles THEN OkSome(<<>> \o [l \in 1..NumLayers |-> out[l + 1].v], out[1].v)
    ELSE IF f > 1 /\ out[f].kind = "None"
         THEN OkSome(<<>> \o [l \in 1..NumLayers |-> IF l + 1 < f THEN out[l + 1].v ELSE EmptyLayer],
                     out[1].v)
    ELSE out[f]

\* load_from_dir leaves at the first such file, with `?`, `return Ok(None)`
\* or the panic, and otherwise returns the world of all the values.
Returned(out, f) ==
    IF f <= NumFiles THEN out[f]
    ELSE OkSome(<<>> \o [l \in 1..NumLayers |-> out[l + 1].v], out[1].v)

\* World::load_from_dir
load_from_dir(files, io) ==
    CHOOSE w \in {Returned(out, FirstFailed(out)) :
                     out \in {[f \in 1..NumFiles |-> LoadFile(files, io, f)]}} : TRUE

(***************************************************************************)
(* Initial states: Runner::new(world) for a world loaded from a save.  The  *)
(* loaded worlds of the model hold one subject block at a tile, a Color    *)
(* block (whose value names the direction) on some of the six neighbouring *)
(* stacks, and a queue of signals addressed to the subject's stack.        *)
(***************************************************************************)
LegalDirs == <<DIR_LEFT, DIR_RIGHT, DIR_UP, DIR_DOWN, DIR_UP_L, DIR_DOWN_L>>
LegalDirSet == {LegalDirs[i] : i \in 1..Len(LegalDirs)}

\* The tile one step from pos = <<x, y, layer>> in the legal direction d.
NeighbourOf(pos, d) ==
    CASE d = DIR_LEFT -> <<pos[1] - 1, pos[2], pos[3]>>
      [] d = DIR_RIGHT -> <<pos[1] + 1, pos[2], pos[3]>>
      [] d = DIR_UP -> <<pos[1], pos[2] - 1, pos[3]>>
      [] d = DIR_DOWN -> <<pos[1], pos[2] + 1, pos[3]>>
      [] d = DIR_UP_L -> <<pos[1], pos[2], pos[3] - 1>>
      [] d = DIR_DOWN_L -> <<pos[1], pos[2], pos[3] + 1>>

HasNeighbour(pos, d) == NeighbourOf(pos, d)[3] \in 0..(NumLayers - 1)

NeighbourColor(d) == <<"Color", <<0, d>>>>

RECURSIVE FillNeighbours(_, _, _, _)
FillNeighbours(ls, pos, fill, i) ==
    IF i > Len(LegalDirs) THEN ls
    ELSE LET d == LegalDirs[i]
             n == NeighbourOf(pos, d)
         IN FillNeighbours(IF d \in fill /\ HasNeighbour(pos, d)
                           THEN PushBlock(ls, n[3], n[1], n[2], NeighbourColor(d))
                           ELSE ls,
                           pos, fill, i + 1)

LoadedLayers(pos, block, fill) ==
    FillNeighbours(PushBlock(new_empty_layers, pos[3], pos[1], pos[2], block),
                   pos, fill, 1)

\* The signal of value v and direction d addressed to the tile pos.
SignalTo(pos, v, d) ==
    LET where == get_where(pos[1], pos[2])
    IN <<v, BitOr(d, pos[3]), where[1], where[2]>>

LoadedQueue(pos, q) ==
    <<>> \o [k \in 1..Len(q) |->
                <<>> \o [j \in 1..Len(q[k]) |-> SignalTo(pos, q[k][j].v, q[k][j].d)]]

LoadedBorn(q) ==
    <<>> \o [k \in 1..Len(q) |->
                <<>> \o [j \in 1..Len(q[k]) |-> [by |-> "load", at |-> 0, delay |-> 0]]]

\* A faulty variant of RunnerNew: the queue is taken as the save holds it.
RunnerNewAsLoaded(q) == q

\* Runner::new: the queue is given one bucket if it has none.
RunnerNew(q) == IF q = <<>> THEN <<<<>>>> ELSE q

NoAddr == [op |-> "none"]

InitWorld(P, B, F, Q) ==
    \E pos \in P, block \in B, fill \in F, q \in Q, oc \in BOOLEAN :
        /\ layers = LoadedLayers(pos, block, fill)
        /\ signals_queue = RunnerNew(LoadedQueue(pos, q))
        /\ born = RunnerNew(LoadedBorn(q))
        /\ tickno = 0
        /\ log = <<>>
        /\ hist = <<>>
        /\ halted = "no"
        /\ overflow_checks = oc
        /\ npush = 0
        /\ nplace = 0
        /\ addr = NoAddr

\* Queues of one signal, and of two signals in the same or in successive buckets.
OneSignal(S) == {<<<<s>>>> : s \in S}
TwoBuckets(S, T) == {<<<<s>>, <<t>>>> : s \in S, t \in T}
OneBucket(S, T) == {<<<<s, t>>>> : s \in S, t \in T}
Sigs(V, D) == {[v |-> v, d |-> d] : v \in V, d \in D}

(***************************************************************************)
(* Actions.                                                                *)
(***************************************************************************)
\* The tiles (x, y, layer) the client acts on, and the block it places.
ClientTiles == {<<0, 0, 0>>}
ClientBlocks == {<<"Color", U32_MAX>>}

\* Runner::tick
Tick ==
    /\ halted = "no"
    /\ tickno < MaxTicks
    /\ \E r \in {tick(overflow_checks, tickno + 1, layers, signals_queue, born)} :
          /\ layers' = r.w.layers
          /\ signals_queue' = r.w.queue
          /\ born' = r.w.born
          /\ halted' = r.w.halt
          /\ log' = r.log
          /\ hist' = hist \o r.log
    /\ tickno' = tickno + 1
    /\ UNCHANGED <<overflow_checks, npush, nplace, addr>>

\* The client's "send zero-signal from above" on a tile of the shown layer.
SendSignal ==
    /\ halted = "no"
    /\ npush < MaxPush
    /\ \E t \in ClientTiles :
          LET where == get_where(t[1], t[2])
          IN /\ signals_queue' = PushAt(signals_queue, 0,
                                        <<U32_ZERO, BitOr(DIR_DOWN_L, t[3]),
                                          where[1], where[2]>>)
             /\ born' = PushAt(born, 0, [by |-> "client", at |-> tickno, delay |-> 0])
    /\ npush' = npush + 1
    /\ UNCHANGED <<layers, tickno, log, hist, halted, overflow_checks, nplace, addr>>

\* The client's block menu: a block is pushed on the stack of a tile.
PlaceBlock ==
    /\ halted = "no"
    /\ nplace < MaxPlace
    /\ \E t \in ClientTiles, block \in ClientBlocks :
          layers' = PushBlock(layers, t[3], t[1], t[2], block)
    /\ nplace' = nplace + 1
    /\ UNCHANGED <<signals_queue, born, tickno, log, hist, halted, overflow_checks,
                   npush, addr>>

Next == Tick \/ SendSignal \/ PlaceBlock

(***************************************************************************)
(* Specifications: the same program from different families of saves.      *)
(***************************************************************************)
Tiles == {<<0, 0, 0>>, <<5, 5, 1>>}
AllFilled == {LegalDirSet}

\* Delay blocks; UP is a side direction of both stored directions.
DelayBlocks == {<<"Delay", t, d>> : t \in {<<0, 0>>, <<0, 2>>}, d \in {DIR_RIGHT, DIR_UP_L}}
DelayFronts == Sigs({<<0, 7>>}, {DIR_RIGHT, DIR_LEFT, DIR_UP_L, DIR_DOWN_L})
DelaySides == Sigs({<<0, 1>>, <<0, 7>>}, {DIR_UP})

InitDelay ==
    InitWorld(Tiles, DelayBlocks, AllFilled,
              OneSignal(DelayFronts \cup DelaySides) \cup TwoBuckets(DelaySides, DelayFronts))

SpecDelay == InitDelay /\ [][Next]_vars

\* Move blocks, with a Color block on each neighbouring stack; UP is a side
\* direction of both stored directions, RIGHT and LEFT are not one of RIGHT's.
MoveBlocks == {<<"Move", d>> : d \in {DIR_RIGHT, DIR_UP_L}}
MoveSides == Sigs({<<0, 0>>, <<0, 7>>}, {DIR_UP})
MoveFronts == Sigs({<<0, 0>>}, {DIR_RIGHT, DIR_LEFT})

InitMove ==
    InitWorld(Tiles, MoveBlocks, AllFilled,
              OneSignal(MoveSides \cup MoveFronts) \cup TwoBuckets(MoveSides, MoveSides))

SpecMove == InitMove /\ [][Next]_vars

\* Storage blocks of every mode the match names, of an unnamed mode (9) and of
\* the greatest mode, at the client's tile; signals from the side.
StorageTiles == {<<0, 0, 0>>}
StorageValues == {<<65535, 65530>>, <<0, 12>>, <<1, 0>>, <<2, 3>>}
StorageModes == {0, 1, 2, 3, 4, 5, 6, 7, 8, 9, 255}
StorageBlocks ==
    {<<"Storage", v, m, DIR_RIGHT>> : v \in StorageValues, m \in StorageModes}
StorageSides == Sigs({<<0, 0>>, <<0, 10>>, <<1, 0>>, U32_MAX}, {DIR_UP})

InitStorage ==
    InitWorld(StorageTiles, StorageBlocks, AllFilled,
              OneSignal(StorageSides)
                  \cup TwoBuckets(Sigs({<<0, 10>>}, {DIR_UP}), Sigs({<<0, 10>>}, {DIR_UP})))

SpecStorage == InitStorage /\ [][Next]_vars

\* Addressing: a fresh world (World::new_empty, Runner::new), in which advance
\* (pos_move) is applied to the address get_where gives for a tile.  The
\* tiles lie on both sides of the chunk edges between chunk coordinates
\* -2, -1, 0 and 1 of either axis.
AddrCoords == {-17, -16, -1, 0, 15, 16}
AddrLayers == {0, 31}
AddrDirs == {DIR_LEFT, DIR_RIGHT, DIR_UP, DIR_DOWN}

InitAddr ==
    /\ layers = new_empty_layers
    /\ signals_queue = RunnerNew(<<>>)
    /\ born = RunnerNew(<<>>)
    /\ tickno = 0
    /\ log = <<>>
    /\ hist = <<>>
    /\ halted = "no"
    /\ overflow_checks \in BOOLEAN
    /\ npush = 0
    /\ nplace = 0
    /\ addr = NoAddr

\* pos_move on get_where(x, y) with the direction d and the layer l.
AdvanceFrom ==
    /\ \E x \in AddrCoords, y \in AddrCoords, l \in AddrLayers, d \in AddrDirs :
          addr' = [op |-> "advance", x |-> x, y |-> y, layer |-> l, dir |-> d,
                   res |-> pos_move(overflow_checks, BitOr(d, l),
                                    get_where(x, y)[1], get_where(x, y)[2])]
    /\ UNCHANGED <<layers, signals_queue, born, tickno, log, hist, halted,
                   overflow_checks, npush, nplace>>

SpecAddr == InitAddr /\ [][AdvanceFrom]_vars

\* Storage blocks of a named, an unnamed and a large mode, with signals in
\* line with them (along the stored direction and against it) and from the side.
FrontStorageBlocks ==
    {<<"Storage", <<0, 12>>, m, d>> : m \in {0, 9, 200}, d \in {DIR_RIGHT, DIR_UP_L}}
StorageFronts ==
    Sigs({<<0, 3>>, <<1, 5>>}, {DIR_RIGHT, DIR_LEFT, DIR_UP_L, DIR_DOWN_L})
StorageSide10 == Sigs({<<0, 10>>}, {DIR_UP})

InitStorageFront ==
    InitWorld(Tiles, FrontStorageBlocks, AllFilled,
              OneSignal(StorageFronts \cup StorageSide10)
                  \cup TwoBuckets(StorageSide10, StorageFronts))

SpecStorageFront == InitStorageFront /\ [][Next]_vars

\* Delay and Gate blocks, with signals in line with them (along the stored
\* direction and against it) and from the side.
ForwardBlocks ==
    {<<"Delay", t, d>> : t \in {<<0, 0>>, <<0, 1>>}, d \in {DIR_RIGHT, DIR_UP_L}}
        \cup {<<"Gate", o, d>> : o \in BOOLEAN, d \in {DIR_RIGHT, DIR_UP_L}}
ForwardFronts == Sigs({<<0, 7>>}, {DIR_RIGHT, DIR_LEFT, DIR_UP_L, DIR_DOWN_L})
ForwardSides == Sigs({<<0, 0>>, <<0, 1>>}, {DIR_UP})

InitForward ==
    InitWorld(Tiles, ForwardBlocks, AllFilled,
              OneSignal(ForwardFronts \cup ForwardSides)
                  \cup TwoBuckets(ForwardSides, ForwardFronts))

SpecForward == InitForward /\ [][Next]_vars

\* Splitter blocks, with signals from the side and in line with them.
SplitterBlocks == {<<"Splitter", d>> : d \in {DIR_RIGHT, DIR_UP_L}}
SplitterSides == Sigs({<<0, 0>>, <<0, 7>>}, {DIR_UP})
SplitterFronts == Sigs({<<0, 7>>}, {DIR_RIGHT, DIR_LEFT})

InitSplitter ==
    InitWorld(Tiles, SplitterBlocks, AllFilled,
              OneSignal(SplitterSides \cup SplitterFronts)
                  \cup TwoBuckets(SplitterSides, SplitterSides))

SpecSplitter == InitSplitter /\ [][Next]_vars

\* Gate blocks, open and closed, with signals from the side (opening and
\* closing) and in line with them, in up to three successive buckets.
ThreeBuckets(S, T, U) == {<<<<s>>, <<t>>, <<u>>>> : s \in S, t \in T, u \in U}
GateBlocks == {<<"Gate", o, d>> : o \in BOOLEAN, d \in {DIR_RIGHT, DIR_UP_L}}
GateFronts == Sigs({<<0, 7>>}, {DIR_RIGHT, DIR_LEFT, DIR_UP_L, DIR_DOWN_L})
GateSides == Sigs({<<0, 0>>, <<0, 1>>}, {DIR_UP})

InitGate ==
    InitWorld(Tiles, GateBlocks, AllFilled,
              OneSignal(GateFronts \cup GateSides)
                  \cup TwoBuckets(GateSides, GateFronts)
                  \cup ThreeBuckets(GateSides, GateSides, Sigs({<<0, 7>>}, {DIR_RIGHT})))

SpecGate == InitGate /\ [][Next]_vars

\* Move and Swap blocks beside the client's tile, inside a chunk, and on the
\* lowest layer, with a Color block on all, on none, or on one side's
\* neighbouring stacks; UP is a side direction of both stored directions.
EdgeTiles == {<<1, 0, 0>>, <<5, 5, 1>>, <<5, 5, 31>>}
MoveSwapBlocks ==
    {<<"Move", d>> : d \in {DIR_RIGHT, DIR_UP_L}}
        \cup {<<"Swap", d>> : d \in {DIR_RIGHT, DIR_UP_L}}
PartFilled == {LegalDirSet, {}, {DIR_LEFT, DIR_UP_L}, {DIR_RIGHT, DIR_DOWN_L}}

InitMoveSwap ==
    InitWorld(EdgeTiles, MoveSwapBlocks, PartFilled,
              OneSignal(MoveSides \cup MoveFronts) \cup TwoBuckets(MoveSides, MoveSides))

SpecMoveSwap == InitMoveSwap /\ [][Next]_vars

\* Color and Char blocks, with signals of every legal direction and of two
\* direction bytes that name no direction, alone, two in one bucket and two
\* in successive buckets.
ColorBlocks == {<<"Color", <<0, 5>>>>, <<"Char", <<0, 5>>>>}
AnyDirs == LegalDirSet \cup {0, 224}
ColorSignals == Sigs({<<0, 0>>, <<0, 7>>, U32_MAX}, AnyDirs)
ColorPairs == Sigs({<<0, 1>>, <<0, 2>>}, {DIR_UP, DIR_DOWN_L})

InitColor ==
    InitWorld(Tiles, ColorBlocks, AllFilled,
              OneSignal(ColorSignals) \cup OneBucket(ColorPairs, ColorPairs)
                  \cup TwoBuckets(ColorPairs, ColorPairs))

SpecColor == InitColor /\ [][Next]_vars

\* Queues of up to three buckets of up to two signals, addressed to the
\* subject block ("subject"), to an empty stack three tiles to its right in
\* the same chunk ("near") and to a stack of a chunk that no save holds
\* ("far"); the saved queue may also have no bucket.  The subject forwards
\* to its right, into the next bucket or a later one, or takes the value.
QueueBlocks ==
    {<<"Delay", <<0, 0>>, DIR_RIGHT>>, <<"Delay", <<0, 1>>, DIR_RIGHT>>,
     <<"Gate", TRUE, DIR_RIGHT>>, <<"Color", <<0, 5>>>>}
SomeFilled == {LegalDirSet, {}}
QueueKinds == {"subject", "near", "far"}
FarTile == <<40, 40, 3>>

QueueSignal(pos, kind) ==
    CASE kind = "subject" -> SignalTo(pos, <<0, 7>>, DIR_RIGHT)
      [] kind = "near" -> SignalTo(<<pos[1] + 3, pos[2], pos[3]>>, <<0, 8>>, DIR_RIGHT)
      [] kind = "far" -> SignalTo(FarTile, <<0, 9>>, DIR_UP)

QueueShapes ==
    {<<>>, <<<<>>, <<"near", "subject">>, <<"subject">>>>,
     <<<<"subject">>, <<"near">>, <<"far", "subject">>>>}
        \cup {<<<<x>>>> : x \in QueueKinds}
        \cup {<<<<x, y>>>> : x \in QueueKinds, y \in QueueKinds}
        \cup {<<<<x>>, <<y>>>> : x \in QueueKinds, y \in QueueKinds}

\* The saved queue of kinds q, for the subject at pos.
LoadedSignals(pos, q) ==
    <<>> \o [k \in 1..Len(q) |->
                <<>> \o [j \in 1..Len(q[k]) |-> QueueSignal(pos, q[k][j])]]

\* history: a loaded signal is in its bucket from tick 0 on.
LoadedBornIn(q) ==
    <<>> \o [k \in 1..Len(q) |->
                <<>> \o [j \in 1..Len(q[k]) |-> [by |-> "load", at |-> 0, delay |-> k - 1]]]

InitQueue ==
    \E pos \in Tiles, block \in QueueBlocks, fill \in SomeFilled, q \in QueueShapes,
       oc \in BOOLEAN :
        /\ layers = LoadedLayers(pos, block, fill)
        /\ signals_queue = RunnerNew(LoadedSignals(pos, q))
        /\ born = RunnerNew(LoadedBornIn(q))
        /\ tickno = 0
        /\ log = <<>>
        /\ hist = <<>>
        /\ halted = "no"
        /\ overflow_checks = oc
        /\ npush = 0
        /\ nplace = 0
        /\ addr = NoAddr

SpecQueue == InitQueue /\ [][Next]_vars

\* Delay blocks that get a side-signal alone, in the bucket of a front-signal
\* (before it and after it), and in the bucket after that of a front-signal,
\* while what the Delay forwarded is still queued.
ReconfiguredDelays ==
    {<<"Delay", t, d>> : t \in {<<0, 0>>, <<0, 2>>}, d \in {DIR_RIGHT, DIR_UP_L}}
DelayNewTicks == Sigs({<<0, 0>>, <<0, 1>>, <<0, 3>>, U32_MAX}, {DIR_UP, DIR_DOWN})
DelayPassing == Sigs({<<0, 7>>}, {DIR_RIGHT, DIR_UP_L})

InitDelaySide ==
    InitWorld(Tiles, ReconfiguredDelays, AllFilled,
              OneSignal(DelayNewTicks) \cup TwoBuckets(DelayPassing, DelayNewTicks)
                  \cup OneBucket(DelayPassing, DelayNewTicks)
                  \cup OneBucket(DelayNewTicks, DelayPassing))

SpecDelaySide == InitDelaySide /\ [][Next]_vars

\* Layers of a world created empty (World::new_empty, no save), on which get,
\* get_mut and get_mut(..)[pos].push(block) are called with keys of chunks
\* at and around the origin.  hist holds, once each, the layer and key of the
\* calls of get_mut so far; addr the last call and what it returned.
ChunkKeys == {<<0, 0, 0, 0>>, <<65535, 65535, 65535, 65535>>}
ChunkLayers == {0, 31}
ChunkStacks == {0, 255}

InitChunks ==
    /\ layers = new_empty_layers
    /\ signals_queue = RunnerNew(<<>>)
    /\ born = RunnerNew(<<>>)
    /\ tickno = 0
    /\ log = <<>>
    /\ hist = <<>>
    /\ halted = "no"
    /\ overflow_checks \in BOOLEAN
    /\ npush = 0
    /\ nplace = 0
    /\ addr = NoAddr

\* The calls of get_mut so far, with the call on (l, chunk).
CalledWith(l, chunk) ==
    IF \E i \in 1..Len(hist) : hist[i] = [l |-> l, chunk |-> chunk] THEN hist
    ELSE Append(hist, [l |-> l, chunk |-> chunk])

\* layers[l].get(&chunk)
LayerGet ==
    /\ \E l \in ChunkLayers, chunk \in ChunkKeys :
          addr' = [op |-> "get", l |-> l, chunk |-> chunk, res |-> get(layers[l + 1], chunk)]
    /\ UNCHANGED <<layers, signals_queue, born, tickno, log, hist, halted,
                   overflow_checks, npush, nplace>>

\* layers[l].get_mut(&chunk)
LayerGetMut ==
    /\ \E l \in ChunkLayers, chunk \in ChunkKeys :
          /\ layers' = Materialise(layers, l, chunk)
          /\ addr' = [op |-> "get_mut", l |-> l, chunk |-> chunk,
                      res |-> Materialise(layers, l, chunk)[l + 1][chunk]]
          /\ hist' = CalledWith(l, chunk)
    /\ UNCHANGED <<signals_queue, born, tickno, log, halted, overflow_checks, npush,
                   nplace>>

\* layers[l].get_mut(&chunk)[pos].push(block), as the client's block menu does
ChunkPush ==
    /\ nplace < MaxPlace
    /\ \E l \in ChunkLayers, chunk \in ChunkKeys, pos \in ChunkStacks, block \in ClientBlocks :
          /\ layers' = push(layers, l, chunk, pos, block)
          /\ addr' = [op |-> "push", l |-> l, chunk |-> chunk, pos |-> pos]
          /\ hist' = CalledWith(l, chunk)
    /\ nplace' = nplace + 1
    /\ UNCHANGED <<signals_queue, born, tickno, log, halted, overflow_checks, npush>>

NextChunks == LayerGet \/ LayerGetMut \/ ChunkPush

SpecChunks == InitChunks /\ [][NextChunks]_vars

\* The life of chunks: a Move block between two layers, whose neighbouring
\* stack is the only block of its chunk, with ticks, the client's signals and
\* placements, and calls of get and get_mut from outside the tick.
LifeBlocks == {<<"Move", DIR_UP_L>>}
LifeFilled == {{DIR_UP_L}, {}}
LifeSides == Sigs({<<0, 0>>}, {DIR_UP})

InitChunkLife ==
    InitWorld({<<5, 5, 1>>}, LifeBlocks, LifeFilled, OneSignal(LifeSides))

\* layers[l].get_mut(&chunk), its result not used
GetMutCall ==
    /\ \E l \in ChunkLayers, chunk \in ChunkKeys : layers' = Materialise(layers, l, chunk)
    /\ UNCHANGED <<signals_queue, born, tickno, log, hist, halted, overflow_checks,
                   npush, nplace, addr>>

NextChunkLife == Tick \/ SendSignal \/ PlaceBlock \/ LayerGet \/ GetMutCall

SpecChunkLife == InitChunkLife /\ [][NextChunkLife]_vars

\* Addressing at full width: get_where, and the overlay's way back, on tiles
\* around the origin, around the chunk coordinates -2^31 and 2^31 - 1 (the
\* tiles -2^35 and 2^35 - 1), beyond them, and at both ends of i64.
LocateCoords ==
    {I64(n) : n \in {-17, -16, -1, 0, 15, 16}}
        \cup {I64_MIN, <<65535, 65527, 65535, 65535>>, <<65535, 65528, 0, 0>>,
              <<0, 7, 65535, 65535>>, <<0, 8, 0, 0>>, <<0, 16, 0, 0>>, I64_MAX}

\* layers[l].get_where(x, y), and the overlay's tile for what it returned
Locate ==
    /\ \E x \in LocateCoords, y \in LocateCoords :
          \E r \in {get_where64(overflow_checks, x, y)} :
              addr' = [op |-> "locate", x |-> x, y |-> y, res |-> r,
                       back |-> OverlayTile(r.chunk, r.inchunk)]
    /\ UNCHANGED <<layers, signals_queue, born, tickno, log, hist, halted,
                   overflow_checks, npush, nplace>>

SpecLocate == InitAddr /\ [][Locate]_vars

\* advance on every dir_layer byte (the eight 3-bit direction codes on each of
\* the 32 layers), from the first and the last stack of the chunks at both
\* ends of the key.
AnyDirLayers == 0..255
AdvanceChunks == {<<0, 0, 0, 0>>, <<65535, 65535, 65535, 65535>>}
AdvanceInners == {0, 255}

\* pos_moved(dir_layer, pos_chunk, pos_inner)
AdvanceAny ==
    /\ \E dl \in AnyDirLayers, c \in AdvanceChunks, i \in AdvanceInners :
          addr' = [op |-> "pos_moved", dir_layer |-> dl, pos_chunk |-> c, pos_inner |-> i,
                   res |-> pos_moved(overflow_checks, dl, c, i)]
    /\ UNCHANGED <<layers, signals_queue, born, tickno, log, hist, halted,
                   overflow_checks, npush, nplace>>

SpecAdvance == InitAddr /\ [][AdvanceAny]_vars

\* The direction functions on every byte a, with b each of the eight 3-bit
\* codes on the layers 0, 21 and 31.
DirBytes == 0..255
DirOthers == {(code * 32) + l : code \in 0..7, l \in {0, 21, 31}}

InitDirs ==
    /\ layers = new_empty_layers
    /\ signals_queue = RunnerNew(<<>>)
    /\ born = RunnerNew(<<>>)
    /\ tickno = 0
    /\ log = <<>>
    /\ hist = <<>>
    /\ halted = "no"
    /\ overflow_checks \in BOOLEAN
    /\ npush = 0
    /\ nplace = 0
    /\ addr \in {[op |-> "args", a |-> a, b |-> b] : a \in DirBytes, b \in DirOthers}

\* dir_rev, is_same_dir and is_side on the drawn bytes
DirCalls ==
    /\ addr.op = "args"
    /\ addr' = [op |-> "dirs", a |-> addr.a, b |-> addr.b,
                rev |-> dir_rev(addr.a),
                rev_rev |-> dir_rev(dir_rev(addr.a)),
                same |-> is_same_dir(addr.a, addr.b),
                side |-> is_side(addr.a, addr.b),
                side_rev_b |-> is_side(addr.a, dir_rev(addr.b)),
                side_rev_a |-> is_side(dir_rev(addr.a), addr.b)]
    /\ UNCHANGED <<layers, signals_queue, born, tickno, log, hist, halted,
                   overflow_checks, npush, nplace>>

SpecDirs == InitDirs /\ [][DirCalls]_vars

\* The codec on whole worlds.  A world holds one stack of blocks with legal
\* direction codes (empty, one block, or one block of every variant) in the
\* first stack of layer 0's chunk (0, 0) or in the last stack of layer 31's
\* chunk (-1, -1), possibly a second chunk of only empty stacks in the same
\* layer, and a queue of no, one empty, or several buckets.
CODEC_VALUE == <<258, 772>>
CodecBlocks ==
    {<<"Color", U32_ZERO>>, <<"Color", CODEC_VALUE>>, <<"Char", CODEC_VALUE>>, <<"Char", U32_MAX>>,
     <<"Delay", U32_ZERO, DIR_UP>>, <<"Delay", U32_MAX, DIR_DOWN_L>>,
     <<"Storage", CODEC_VALUE, 0, DIR_RIGHT>>, <<"Storage", U32_MAX, 255, DIR_DOWN>>,
     <<"Splitter", DIR_UP_L>>, <<"Swap", DIR_DOWN>>}
        \cup {<<"Gate", open, d>> : open \in BOOLEAN, d \in LegalDirSet}
        \cup {<<"Move", d>> : d \in LegalDirSet}
EveryVariant ==
    <<<<"Color", CODEC_VALUE>>, <<"Char", U32_MAX>>, <<"Delay", CODEC_VALUE, DIR_LEFT>>,
      <<"Storage", U32_ZERO, 8, DIR_UP>>, <<"Gate", TRUE, DIR_RIGHT>>, <<"Gate", FALSE, DIR_DOWN>>,
      <<"Splitter", DIR_UP_L>>, <<"Move", DIR_DOWN_L>>, <<"Swap", DIR_LEFT>>>>
CodecStacks ==
    {<<>>, EveryVariant, <<EveryVariant[9], EveryVariant[1], EveryVariant[1]>>}
        \cup {<<b>> : b \in CodecBlocks}
CodecPlaces == {<<0, <<0, 0, 0, 0>>, 0>>, <<31, <<65535, 65535, 65535, 65535>>, 255>>}
CodecSignals ==
    <<<<U32_ZERO, 0, <<0, 0, 0, 0>>, 0>>,
      <<CODEC_VALUE, DIR_LEFT + 3, <<1, 2, 3, 4>>, 5>>,
      <<U32_MAX, 255, <<65535, 65535, 65535, 65535>>, 255>>>>
CodecQueues ==
    {<<>>, <<<<>>>>,
     <<<<CodecSignals[2], CodecSignals[3]>>, <<>>, <<CodecSignals[1]>>,
       <<CodecSignals[3], CodecSignals[2], CodecSignals[1]>>>>}
OtherChunk == <<0, 1, 65535, 65535>>

CodecWorld(place, stack, other) ==
    IF other
    THEN Materialise(SetStack(Materialise(new_empty_layers, place[1], place[2]),
                              place[1], place[2], place[3], stack), place[1], OtherChunk)
    ELSE SetStack(Materialise(new_empty_layers, place[1], place[2]),
                  place[1], place[2], place[3], stack)

InitCodec ==
    /\ \E place \in CodecPlaces, stack \in CodecStacks, other \in BOOLEAN :
          layers = CodecWorld(place, stack, other)
    /\ signals_queue \in CodecQueues
    /\ born = <<>>
    /\ tickno = 0
    /\ log = <<>>
    /\ hist = <<>>
    /\ halted = "no"
    /\ overflow_checks = TRUE
    /\ npush = 0
    /\ nplace = 0
    /\ addr = NoAddr

\* world.save_to_dir(dir), then World::load_from_dir(dir), with no I/O error
SaveThenLoad ==
    /\ addr.op = "none"
    /\ \E o \in Enumerations(AllKeys(layers)) :
          addr' = [op |-> "save_load", order |-> o,
                   loaded |-> load_from_dir(save_to_dir(layers, signals_queue, o), 0)]
    /\ UNCHANGED <<layers, signals_queue, born, tickno, log, hist, halted,
                   overflow_checks, npush, nplace>>

SpecCodec == InitCodec /\ [][SaveThenLoad]_vars

\* The codec on single blocks: every variant, with u32 fields of different
\* bytes, named and unnamed modes, and every direction byte.
CodecValues == {U32_ZERO, CODEC_VALUE, U32_MAX}
CodecModes == {0, 8, 255}
AnyBlocks ==
    {<<"Color", v>> : v \in CodecValues} \cup {<<"Char", v>> : v \in CodecValues}
        \cup {<<"Delay", v, d>> : v \in CodecValues, d \in {0, 33, DIR_LEFT, 255}}
        \cup {<<"Storage", v, m, d>> : v \in CodecValues, m \in CodecModes, d \in {DIR_UP, 255}}
        \cup {<<"Gate", open, d>> : open \in BOOLEAN, d \in DirBytes}
        \cup {<<variant, d>> : variant \in {"Splitter", "Move", "Swap"}, d \in DirBytes}

InitBlockCodec ==
    /\ layers = new_empty_layers
    /\ signals_queue = RunnerNew(<<>>)
    /\ born = RunnerNew(<<>>)
    /\ tickno = 0
    /\ log = <<>>
    /\ hist = <<>>
    /\ halted = "no"
    /\ overflow_checks = TRUE
    /\ npush = 0
    /\ nplace = 0
    /\ addr \in {[op |-> "args", block |-> b] : b \in AnyBlocks}

\* block.save(&mut buf), then Block::load on buf followed by one more byte
\* (a 'c')
BlockSaveLoad ==
    /\ addr.op = "args"
    /\ addr' = [op |-> "block", block |-> addr.block, bytes |-> save_Block(addr.block),
                back |-> load_Block(Append(save_Block(addr.block), 99), 1)]
    /\ UNCHANGED <<layers, signals_queue, born, tickno, log, hist, halted,
                   overflow_checks, npush, nplace>>

SpecBlockCodec == InitBlockCodec /\ [][BlockSaveLoad]_vars

\* Strict decoding.  The valid files: two layer files (a stack of every
\* variant in the first stack of the only chunk; one Gate in the last stack
\* of a chunk that comes after a chunk of only empty stacks) and the queue
\* files of CodecQueues.  tags holds the positions of the block tags.
TagBytes == {99, 67, 100, 115, 103, 71, 109, 77}

\* The position of the tag of blocks[j], in a file in which `before` bytes
\* come before the stack's length.
TagPosition(before, blocks, j) == before + Len(save_stack(SubSeq(blocks, 1, j - 1))) + 1

OneChunkLayer(key, inner, blocks) ==
    key :> [create_empty_chunk EXCEPT ![inner + 1] = blocks]

StrictFiles ==
    {[kind |-> "Layer",
      bytes |-> save_Layer(OneChunkLayer(<<0, 0, 0, 0>>, 0, EveryVariant), <<<<0, 0, 0, 0>>>>),
      tags |-> {TagPosition(16, EveryVariant, j) : j \in 1..Len(EveryVariant)}],
     [kind |-> "Layer",
      bytes |-> save_Layer(OneChunkLayer(<<0, 0, 0, 1>>, 255, <<EveryVariant[5]>>)
                               @@ OneChunkLayer(OtherChunk, 0, <<>>),
                           <<OtherChunk, <<0, 0, 0, 1>>>>),
      tags |-> {TagPosition(16 + (8 * ChunkLen) + 8 + (8 * 255), <<EveryVariant[5]>>, 1)}]}
        \cup {[kind |-> "queue", bytes |-> save_VecDeque(q), tags |-> {}] : q \in CodecQueues}

InitStrict ==
    /\ layers = new_empty_layers
    /\ signals_queue = RunnerNew(<<>>)
    /\ born = RunnerNew(<<>>)
    /\ tickno = 0
    /\ log = <<>>
    /\ hist = <<>>
    /\ halted = "no"
    /\ overflow_checks = TRUE
    /\ npush = 0
    /\ nplace = 0
    /\ addr \in {[op |-> "file", file |-> f] : f \in StrictFiles}

Unchanged == UNCHANGED <<layers, signals_queue, born, tickno, log, hist, halted,
                         overflow_checks, npush, nplace>>

\* SaveLoad::load on the whole file
LoadWhole ==
    /\ addr.op = "file"
    /\ addr' = [op |-> "whole", kind |-> addr.file.kind, len |-> Len(addr.file.bytes),
                at |-> 0, byte |-> 0,
                res |-> load(addr.file.kind, addr.file.bytes, 1)]
    /\ Unchanged

\* SaveLoad::load on the first n bytes of the file, n less than its length
LoadPrefix ==
    /\ addr.op = "file"
    /\ \E n \in 0..(Len(addr.file.bytes) - 1) :
          addr' = [op |-> "prefix", kind |-> addr.file.kind, len |-> Len(addr.file.bytes),
                   at |-> n, byte |-> 0,
                   res |-> load(addr.file.kind, SubSeq(addr.file.bytes, 1, n), 1)]
    /\ Unchanged

\* SaveLoad::load on the file with the tag at position p replaced by byte x
LoadBadTag ==
    /\ addr.op = "file"
    /\ \E p \in addr.file.tags, x \in DirBytes \ TagBytes :
          addr' = [op |-> "bad_tag", kind |-> addr.file.kind, len |-> Len(addr.file.bytes),
                   at |-> p, byte |-> x,
                   res |-> load(addr.file.kind, [addr.file.bytes EXCEPT ![p] = x], 1)]
    /\ Unchanged

NextStrict == LoadWhole \/ LoadPrefix \/ LoadBadTag

SpecStrict == InitStrict /\ [][NextStrict]_vars

\* load_from_dir on a world directory.  The directory is what save_to_dir
\* wrote for a world with a stack of every variant in layer 0 and a queue of
\* four buckets, except that file `bad` (0: none) is damaged: "cut" (its last
\* byte is missing), "tag" (layer_0's first block tag is 0) or "huge" (its
\* first length is 2^63 or more); file io (0: none) cannot be opened or read.
DirPlace == <<0, <<0, 0, 0, 0>>, 0>>
DirQueue ==
    <<<<CodecSignals[2], CodecSignals[3]>>, <<>>, <<CodecSignals[1]>>,
      <<CodecSignals[3], CodecSignals[2], CodecSignals[1]>>>>
Damages(f) == IF f = 0 THEN {"none"} ELSE IF f = 2 THEN {"cut", "tag", "huge"} ELSE {"cut", "huge"}

Damaged(bytes, how) ==
    CASE how = "cut" -> SubSeq(bytes, 1, Len(bytes) - 1)
      [] how = "tag" -> [bytes EXCEPT ![TagPosition(16, EveryVariant, 1)] = 0]
      [] how = "huge" -> [bytes EXCEPT ![1] = 128]

\* The directory's files, numbered as load_from_dir goes through them.
DamagedDir(files, bad, how) ==
    [signals |-> IF bad = 1 THEN Damaged(files.signals, how) ELSE files.signals,
     layer |-> <<>> \o [l \in 1..NumLayers |->
                  IF bad = l + 1 THEN Damaged(files.layer[l], how) ELSE files.layer[l]]]

InitLoadDir ==
    /\ layers = CodecWorld(DirPlace, EveryVariant, FALSE)
    /\ signals_queue = DirQueue
    /\ born = <<>>
    /\ tickno = 0
    /\ log = <<>>
    /\ hist = <<>>
    /\ halted = "no"
    /\ overflow_checks = TRUE
    /\ npush = 0
    /\ nplace = 0
    /\ addr \in {[op |-> "dir", bad |-> bad, how |-> how, io |-> io] :
                    bad \in 0..NumFiles, how \in {"none", "cut", "tag", "huge"}, io \in 0..NumFiles}
    /\ addr.how \in Damages(addr.bad)

\* World::load_from_dir(dir)
LoadFromDir ==
    /\ addr.op = "dir"
    /\ addr' = [op |-> "load_from_dir", bad |-> addr.bad, how |-> addr.how, io |-> addr.io,
                res |-> load_from_dir(
                            DamagedDir(save_to_dir(layers, signals_queue, <<DirPlace[2]>>),
                                       addr.bad, addr.how),
                            addr.io)]
    /\ Unchanged

SpecLoadDir == InitLoadDir /\ [][LoadFromDir]_vars

\* Every variant as the subject block, between neighbours on all six sides,
\* with one signal from the side or along the block's direction.
EveryBlocks ==
    {<<"Color", <<0, 5>>>>, <<"Char", <<0, 5>>>>, <<"Delay", <<0, 1>>, DIR_RIGHT>>,
     <<"Storage", <<0, 5>>, 4, DIR_RIGHT>>, <<"Gate", TRUE, DIR_RIGHT>>,
     <<"Splitter", DIR_RIGHT>>, <<"Move", DIR_RIGHT>>, <<"Move", DIR_UP_L>>,
     <<"Swap", DIR_RIGHT>>, <<"Swap", DIR_UP_L>>}
EverySignals == Sigs({<<0, 0>>, <<0, 7>>}, {DIR_UP}) \cup Sigs({<<0, 7>>}, {DIR_RIGHT})

InitBlocks == InitWorld({<<5, 5, 1>>}, EveryBlocks, AllFilled, OneSignal(EverySignals))

SpecBlocks == InitBlocks /\ [][Next]_vars

(***************************************************************************)
(* The client's window states.  addr holds the client: its WindowState, the *)
(* save directory on disk and the loading thread.  layers, signals_queue    *)
(* and born are the Runner's world and exist only in Singleplayer; in the   *)
(* other states there is no Runner and they are NoRunner.                   *)
(***************************************************************************)
NoRunner == <<>>
NoThread == [status |-> "none", read |-> 0, outcome |-> OkNone]

\* The save: a Delay block between filled neighbours with a signal in the
\* queue's first bucket (or an empty queue); file bad is damaged, file io
\* cannot be read.
ClientSavePlace == <<5, 5, 1>>
ClientSaveQueues == {<<>>, <<<<[v |-> <<0, 7>>, d |-> DIR_RIGHT]>>>>}
ClientDamages ==
    {[bad |-> 0, how |-> "none", io |-> 0], [bad |-> 1, how |-> "cut", io |-> 0],
     [bad |-> 3, how |-> "cut", io |-> 0], [bad |-> NumFiles, how |-> "huge", io |-> 0],
     [bad |-> 0, how |-> "none", io |-> 1], [bad |-> 0, how |-> "none", io |-> NumFiles]}

SavedLayers == LoadedLayers(ClientSavePlace, <<"Delay", <<0, 1>>, DIR_RIGHT>>, LegalDirSet)

SavedFiles(save) ==
    DamagedDir(save_to_dir(SavedLayers, LoadedQueue(ClientSavePlace, save.q),
                           <<get_where(ClientSavePlace[1], ClientSavePlace[2])[1]>>),
               save.bad, save.how)

\* A faulty variant of is_finished: the handle counts as finished at once.
is_finishedAtOnce(thread) == thread.status # "none"

\* JoinHandle::is_finished: the thread returned or panicked.
is_finished(thread) == thread.status \in {"finished", "panicked"}

\* Runner::new(world) on the loaded world: the history of its queue.
RunnerBorn(q) ==
    <<>> \o [k \in 1..Len(q) |->
                <<>> \o [j \in 1..Len(q[k]) |-> [by |-> "load", at |-> 0, delay |-> k - 1]]]

InitClient ==
    /\ layers = NoRunner
    /\ signals_queue = NoRunner
    /\ born = NoRunner
    /\ tickno = 0
    /\ log = <<>>
    /\ hist = <<>>
    /\ halted = "no"
    /\ overflow_checks \in BOOLEAN
    /\ npush = 0
    /\ nplace = 0
    /\ \E q \in ClientSaveQueues, dmg \in ClientDamages :
          addr = [op |-> "client", state |-> "MainMenu",
                  save |-> [q |-> q, bad |-> dmg.bad, how |-> dmg.how, io |-> dmg.io],
                  thread |-> NoThread]

\* A click on a save in the main menu: the loading thread is spawned and the
\* window goes to LoadingWorld.
ClickSave ==
    /\ addr.state = "MainMenu"
    /\ addr' = [addr EXCEPT !.state = "LoadingWorld",
                            !.thread = [status |-> "running", read |-> 0, outcome |-> OkNone]]
    /\ Unchanged

\* A click on the new-world button: World::new_empty() and Runner::new.
ClickNewWorld ==
    /\ addr.state = "MainMenu"
    /\ layers' = new_empty_layers
    /\ signals_queue' = RunnerNew(<<>>)
    /\ born' = RunnerNew(<<>>)
    /\ addr' = [addr EXCEPT !.state = "Singleplayer"]
    /\ UNCHANGED <<tickno, log, hist, halted, overflow_checks, npush, nplace>>

\* The loading thread, one file of load_from_dir at a time: it leaves at the
\* first file that gives no value, and returns after the last one.
ThreadLoads ==
    /\ addr.thread.status = "running"
    /\ \E r \in {IF addr.thread.read < NumFiles
                 THEN LoadFile(SavedFiles(addr.save), addr.save.io, addr.thread.read + 1)
                 ELSE load_from_dir(SavedFiles(addr.save), addr.save.io)} :
          addr' = [addr EXCEPT !.thread =
                      IF r.kind = "ok"
                      THEN [status |-> "running", read |-> addr.thread.read + 1,
                            outcome |-> OkNone]
                      ELSE [status |-> IF r.kind = "panic" THEN "panicked" ELSE "finished",
                            read |-> addr.thread.read, outcome |-> r]]
    /\ Unchanged

\* on_draw in LoadingWorld: when the handle is finished it is joined, and the
\* thread's Some(runner) makes the window Singleplayer with that Runner, its
\* None (load_from_dir's Ok(None) or Err) makes it the main menu; a thread
\* that panicked makes join().unwrap() panic.  Otherwise the progress bar is
\* drawn.
OnDrawLoading ==
    /\ addr.state = "LoadingWorld"
    /\ IF is_finished(addr.thread)
       THEN IF addr.thread.status = "panicked"
            THEN /\ addr' = [addr EXCEPT !.state = "crashed", !.thread = NoThread]
                 /\ Unchanged
            ELSE IF addr.thread.outcome.kind = "Some"
            THEN /\ layers' = addr.thread.outcome.layers
                 /\ signals_queue' = RunnerNew(addr.thread.outcome.signals_queue)
                 /\ born' = RunnerNew(RunnerBorn(addr.thread.outcome.signals_queue))
                 /\ addr' = [addr EXCEPT !.state = "Singleplayer", !.thread = NoThread]
                 /\ UNCHANGED <<tickno, log, hist, halted, overflow_checks, npush, nplace>>
            ELSE /\ addr' = [addr EXCEPT !.state = "MainMenu", !.thread = NoThread]
                 /\ Unchanged
       ELSE UNCHANGED vars

\* on_draw in Singleplayer with state.run, and the menu's tick button
OnDrawSingleplayer == addr.state = "Singleplayer" /\ Tick

\* the Singleplayer menu's signal button and block menu
ClickSignal == addr.state = "Singleplayer" /\ SendSignal
ClickBlock == addr.state = "Singleplayer" /\ PlaceBlock

NextClient ==
    \/ ClickSave
    \/ ClickNewWorld
    \/ ThreadLoads
    \/ OnDrawLoading
    \/ OnDrawSingleplayer
    \/ ClickSignal
    \/ ClickBlock

SpecClient == InitClient /\ [][NextClient]_vars

\* Stacks of two blocks: the subject block and each of its neighbours lie on
\* a Char block, and two signals of one bucket reach the subject.
UnderBlock(d) == <<"Char", <<1, d>>>>
UnderSubject == <<"Char", <<1, 0>>>>

RECURSIVE FillUnder(_, _, _)
FillUnder(ls, pos, i) ==
    IF i > Len(LegalDirs) THEN ls
    ELSE FillUnder(IF HasNeighbour(pos, LegalDirs[i])
                   THEN PushBlock(ls, NeighbourOf(pos, LegalDirs[i])[3],
                                  NeighbourOf(pos, LegalDirs[i])[1],
                                  NeighbourOf(pos, LegalDirs[i])[2], UnderBlock(LegalDirs[i]))
                   ELSE ls,
                   pos, i + 1)

StackedLayers(pos, block) ==
    FillNeighbours(PushBlock(FillUnder(PushBlock(new_empty_layers, pos[3], pos[1], pos[2],
                                                 UnderSubject),
                                       pos, 1),
                             pos[3], pos[1], pos[2], block),
                   pos, LegalDirSet, 1)

StackedTile == <<5, 5, 1>>
StackedSignals == Sigs({<<0, 0>>, <<0, 7>>}, {DIR_UP, DIR_RIGHT})
StackedQueues == OneBucket(StackedSignals, StackedSignals)

InitStacked ==
    \E block \in EveryBlocks, q \in StackedQueues, oc \in BOOLEAN :
        /\ layers = StackedLayers(StackedTile, block)
        /\ signals_queue = RunnerNew(LoadedQueue(StackedTile, q))
        /\ born = RunnerNew(LoadedBorn(q))
        /\ tickno = 0
        /\ log = <<>>
        /\ hist = <<>>
        /\ halted = "no"
        /\ overflow_checks = oc
        /\ npush = 0
        /\ nplace = 0
        /\ addr = NoAddr

SpecStacked == InitStacked /\ [][Next]_vars

\* Storage and Gate blocks with signals in line with them, along the stored
\* direction and against it, alone and after a side-signal.
NextTickBlocks == FrontStorageBlocks \cup GateBlocks

InitNextTick ==
    InitWorld(Tiles, NextTickBlocks, AllFilled,
              OneSignal(StorageFronts) \cup TwoBuckets(StorageSide10, StorageFronts))

SpecNextTick == InitNextTick /\ [][Next]_vars

\* advance, and then advance with the reverse direction from where it came
\* to: the six legal directions on the first and last two layers, from the
\* corners and an inner stack of chunks at the ends and in the middle of
\* either half of the key.
BackDirLayers == {d + l : d \in LegalDirSet, l \in {0, 1, 30, 31}}
BackChunks ==
    {<<0, 0, 0, 0>>, <<0, 0, 0, 1>>, <<0, 1, 0, 0>>, <<0, 0, 65535, 65535>>,
     <<0, 1, 65535, 65535>>, <<65535, 65535, 0, 0>>, <<65535, 65535, 65535, 65535>>,
     <<0, 7, 0, 9>>}
BackInners == {0, 15, 240, 255, 85}

InitBack ==
    /\ layers = new_empty_layers
    /\ signals_queue = RunnerNew(<<>>)
    /\ born = RunnerNew(<<>>)
    /\ tickno = 0
    /\ log = <<>>
    /\ hist = <<>>
    /\ halted = "no"
    /\ overflow_checks \in BOOLEAN
    /\ npush = 0
    /\ nplace = 0
    /\ addr \in {[op |-> "args", dir_layer |-> dl, pos_chunk |-> c, pos_inner |-> i] :
                    dl \in BackDirLayers, c \in BackChunks, i \in BackInners}

\* pos_moved(dir_layer, pos_chunk, pos_inner) and, when it gave Some(m),
\* pos_moved(dir_rev(m.0), m.1, m.2)
ThereAndBack ==
    /\ addr.op = "args"
    /\ \E m \in {pos_moved(overflow_checks, addr.dir_layer, addr.pos_chunk, addr.pos_inner)} :
          addr' = [op |-> "there_and_back", dir_layer |-> addr.dir_layer,
                   pos_chunk |-> addr.pos_chunk, pos_inner |-> addr.pos_inner,
                   there |-> m,
                   back |-> IF m.ok
                            THEN pos_moved(overflow_checks, dir_rev(m.dir_layer),
                                           m.pos_chunk, m.pos_inner)
                            ELSE m]
    /\ Unchanged

SpecBack == InitBack /\ [][ThereAndBack]_vars

(***************************************************************************)
(* Claims.  Entries of hist (and of log, the last tick's part of it) say   *)
(* what the delivery of one signal did.                                    *)
(***************************************************************************)
Entries == {hist[i] : i \in 1..Len(hist)}

\* The entries of the last tick.  (Every entry of hist is one of these in
\* the state its tick leaves.)
Delivered == {log[i] : i \in 1..Len(log)}

\* advance from the target of the entry's signal, with the dir_layer byte dl
Advance(e, dl) == pos_move(overflow_checks, dl, e.sig[3], e.sig[4])

IsFront(e, direction) == ~is_side(direction, e.sig[2])

\* A Delay got a front-signal, advancing succeeded and the tick went on.
DelayForwards(e) ==
    /\ e.top[1] = "Delay"
    /\ IsFront(e, e.top[3])
    /\ Advance(e, e.sig[2]).ok
    /\ e.halt = "no"

\* The signals still queued, with the number of the tick that will pop them.
Pending ==
    UNION {{[born |-> born[k][j], due |-> tickno + k] : j \in 1..Len(born[k])} :
           k \in 1..Len(born)}

\* C1 (as amended): a front-signal of value v delivered by tick N to
\* Delay(ticks, dir), when advancing succeeds, schedules exactly one signal,
\* of value v, in bucket ticks of the queue left after the pop, and that
\* signal is delivered by tick N + ticks + 1, not earlier and not later.
C1_DelayDeliversAfterTicksPlusOne ==
    /\ \A e \in Entries :
          DelayForwards(e) =>
              \E x \in e.enq : /\ e.enq = {x}
                               /\ x.sig[1] = e.sig[1]
                               /\ x.at = U32Small(e.top[2])
                               /\ e.kept
    /\ \A e \in Entries :
          e.born.by = "Delay" =>
              /\ e.tk = e.born.at + e.born.delay + 1
              /\ \E h \in Entries : /\ DelayForwards(h)
                                    /\ h.tk = e.born.at
                                    /\ U32Small(h.top[2]) = e.born.delay
                                    /\ e.sig \in {x.sig : x \in h.enq}
    /\ \A p \in Pending :
          p.born.by = "Delay" => p.due = p.born.at + p.born.delay + 1

\* C1 witness: a signal that a Delay(2) forwarded has been delivered.
C1_Witness ==
    \E e \in Entries : e.born.by = "Delay" /\ e.born.delay = 2

\* C1 as stated: the signal a Delay(ticks) forwards at tick N is delivered
\* by tick N + ticks.
C1_Original ==
    \A e \in Entries : e.born.by = "Delay" => e.tk = e.born.at + e.born.delay

\* The entry's signal was a side-signal for the block of stored direction
\* `direction` that it was delivered to.
IsSide(e, direction) == is_side(direction, e.sig[2])

\* The layer bits of the entry's signal.
LayerOf(e) == BitAnd(e.sig[2], 31)

\* The change of the stack at the cell m (a result of advance) in the entry,
\* if that stack changed.
ChangeAt(e, m) ==
    {c \in e.changed : /\ c.l = BitAnd(m.dir_layer, 31)
                       /\ c.chunk = m.pos_chunk
                       /\ c.inner = m.pos_inner}

\* The entry's only changes: the top block of the stack at src went to the
\* top of the stack at dst.  (Nothing changes when the stack at src is empty.)
MovedFromTo(e, src, dst) ==
    \/ e.changed = {}
    \/ \E c1 \in ChangeAt(e, src), c2 \in ChangeAt(e, dst) :
          /\ c1.pre # <<>>
          /\ c1.post = Pop(c1.pre)
          /\ c2.post = Append(c2.pre, Last(c1.pre))
          /\ e.changed = {c1, c2}

\* A Move got a side-signal, and both advance(dir) and advance(reverse(dir))
\* from its position are valid.
MoveActs(e) ==
    /\ e.top[1] = "Move"
    /\ IsSide(e, e.top[2])
    /\ Advance(e, BitOr(e.top[2], LayerOf(e))).ok
    /\ Advance(e, BitOr(dir_rev(e.top[2]), LayerOf(e))).ok
    /\ e.halt = "no"

\* C2 as stated: a side-signal of value 0 moves the top block of the stack
\* behind (at advance(reverse(dir))) onto the stack in front (at
\* advance(dir)), any other value moves the top block in front onto the
\* stack behind, and every other stack is unchanged.
C2_Original ==
    \A e \in Entries :
        MoveActs(e) =>
            IF e.sig[1] = U32_ZERO
            THEN MovedFromTo(e, Advance(e, BitOr(dir_rev(e.top[2]), LayerOf(e))),
                             Advance(e, BitOr(e.top[2], LayerOf(e))))
            ELSE MovedFromTo(e, Advance(e, BitOr(e.top[2], LayerOf(e))),
                             Advance(e, BitOr(dir_rev(e.top[2]), LayerOf(e))))

\* What Move does instead: value 0 moves the top block at advance(dir) to
\* advance(reverse(dir)), any other value moves it the other way.
C2_MoveAgainstDir ==
    \A e \in Entries :
        MoveActs(e) =>
            IF e.sig[1] = U32_ZERO
            THEN MovedFromTo(e, Advance(e, BitOr(e.top[2], LayerOf(e))),
                             Advance(e, BitOr(dir_rev(e.top[2]), LayerOf(e))))
            ELSE MovedFromTo(e, Advance(e, BitOr(dir_rev(e.top[2]), LayerOf(e))),
                             Advance(e, BitOr(e.top[2], LayerOf(e))))

\* A Move got a side-signal of value 0 and a block changed stacks.
C2_Moved ==
    \E e \in Entries : MoveActs(e) /\ e.sig[1] = U32_ZERO /\ e.changed # {}

\* C3 as stated: tick never panics, whatever the world and the due signals
\* are.
C3_Original == halted # "panic"

\* A side-signal of value 0 reached a Storage of mode 8 and the tick panicked.
C3_RemainderByZero ==
    \E e \in Entries : /\ e.top[1] = "Storage"
                       /\ e.top[3] = 8
                       /\ IsSide(e, e.top[4])
                       /\ e.sig[1] = U32_ZERO
                       /\ e.halt = "panic"

\* The address of the tile one step from (addr.x, addr.y) in direction addr.dir.
LocateNeighbour ==
    get_where(NeighbourOf(<<addr.x, addr.y, addr.layer>>, addr.dir)[1],
              NeighbourOf(<<addr.x, addr.y, addr.layer>>, addr.dir)[2])

\* C4 as stated: advance applied to locate(x, y) with direction left, right,
\* up or down yields locate of the neighbouring tile, with the layer
\* unchanged, also across chunk edges and between chunk coordinates -1 and 0.
C4_Original ==
    addr.op = "advance" =>
        /\ ~addr.res.panic
        /\ addr.res.ok
        /\ <<addr.res.pos_chunk, addr.res.pos_inner>> = LocateNeighbour
        /\ addr.res.dir_layer = BitOr(addr.dir, addr.layer)

\* advance went left from tile (0, 16), returned, and its result is not the
\* address of tile (-1, 16).
C4_LeftFromZero ==
    /\ addr.op = "advance"
    /\ addr.x = 0 /\ addr.y = 16 /\ addr.dir = DIR_LEFT
    /\ addr.res.ok
    /\ <<addr.res.pos_chunk, addr.res.pos_inner>> # LocateNeighbour

\* The entry enqueued exactly one signal, of value v, for the next tick,
\* addressed to the cell m (a result of advance).
ForwardsTo(e, v, m) ==
    \E x \in e.enq :
        /\ e.enq = {x}
        /\ x.at = 0
        /\ x.sig = <<v, m.dir_layer, m.pos_chunk, m.pos_inner>>

\* C5 as stated: a Storage(value, mode, dir) that receives a signal for which
\* is_side is false (arriving with dir or with reverse(dir)) sets its mode
\* to min(signal, 255) and, when advancing one cell in dir succeeds, enqueues
\* exactly one signal carrying value toward the cell one step in dir.
C5_Original ==
    \A e \in Entries :
        (e.top[1] = "Storage" /\ IsFront(e, e.top[4]) /\ e.halt = "no") =>
            /\ e.after = <<"Storage", e.top[2],
                           IF U32AtLeast(e.sig[1], 255) THEN 255 ELSE e.sig[1][2],
                           e.top[4]>>
            /\ Advance(e, BitOr(e.top[4], LayerOf(e))).ok =>
                   ForwardsTo(e, e.top[2], Advance(e, BitOr(e.top[4], LayerOf(e))))

\* What Storage does: the signals arriving with the stored direction are
\* handled as C5 says, the ones arriving against it change and enqueue nothing.
C5_SameDirOnly ==
    \A e \in Entries :
        (e.top[1] = "Storage" /\ IsFront(e, e.top[4]) /\ e.halt = "no") =>
            IF is_same_dir(e.top[4], e.sig[2])
            THEN /\ e.after = <<"Storage", e.top[2],
                                IF U32AtLeast(e.sig[1], 255) THEN 255 ELSE e.sig[1][2],
                                e.top[4]>>
                 /\ Advance(e, BitOr(e.top[4], LayerOf(e))).ok =>
                        ForwardsTo(e, e.top[2], Advance(e, BitOr(e.top[4], LayerOf(e))))
            ELSE e.after = e.top /\ e.enq = {} /\ e.changed = {}

\* A Storage got a signal against its stored direction, with a free cell one
\* step along it, and neither changed its mode nor enqueued anything.
C5_ReverseIgnored ==
    \E e \in Entries :
        /\ e.top[1] = "Storage"
        /\ is_same_dir(e.top[4], dir_rev(e.sig[2]))
        /\ Advance(e, BitOr(e.top[4], LayerOf(e))).ok
        /\ e.top[3] # (IF U32AtLeast(e.sig[1], 255) THEN 255 ELSE e.sig[1][2])
        /\ e.after = e.top
        /\ e.enq = {}
        /\ e.halt = "no"

\* The entry's signal was delivered to a Delay or a Gate.
DelayOrGate(e) == e.top[1] \in {"Delay", "Gate"}

\* The tile (5, 5) of layer 1 lies inside its chunk and its layer has both
\* neighbours: the entry's signal was addressed to it.
AtInnerTile(e) ==
    /\ <<e.sig[3], e.sig[4]>> = get_where(5, 5)
    /\ LayerOf(e) = 1

\* The signal x is addressed to the tile one step from (5, 5, 1) in the
\* direction of the dir_layer byte dl.
ToNeighbourOfInnerTile(x, dl) ==
    /\ <<x.sig[3], x.sig[4]>> = get_where(NeighbourOf(<<5, 5, 1>>, BitAnd(dl, 224))[1],
                                          NeighbourOf(<<5, 5, 1>>, BitAnd(dl, 224))[2])
    /\ BitAnd(x.sig[2], 31) = NeighbourOf(<<5, 5, 1>>, BitAnd(dl, 224))[3]

\* C6 (as amended): every signal forwarded by a Delay or a Gate comes from a
\* front-signal, carries its value and its direction, and is addressed to the
\* cell that advance yields from the block's position with the arriving
\* signal's own dir_layer: one step along dir for an arrival with dir, one
\* step along reverse(dir) for an arrival with reverse(dir).
C6_ForwardedAlongArrival ==
    \A e \in Entries :
        DelayOrGate(e) =>
            \A x \in e.enq :
                /\ IsFront(e, e.top[3])
                /\ Advance(e, e.sig[2]).ok
                /\ x.sig = <<e.sig[1], Advance(e, e.sig[2]).dir_layer,
                             Advance(e, e.sig[2]).pos_chunk, Advance(e, e.sig[2]).pos_inner>>
                /\ BitAnd(x.sig[2], 224) = BitAnd(e.sig[2], 224)
                /\ AtInnerTile(e) => ToNeighbourOfInnerTile(x, e.sig[2])

\* C6 witness: a Delay or a Gate forwarded a signal that arrived against the
\* stored direction.
C6_ForwardedReverse ==
    \E e \in Entries : /\ DelayOrGate(e)
                       /\ is_same_dir(e.top[3], dir_rev(e.sig[2]))
                       /\ AtInnerTile(e)
                       /\ e.enq # {}

\* C6 as stated: every signal forwarded by a Delay or an open Gate is
\* addressed to the cell one step along the block's stored direction,
\* whether the front-signal arrived with dir or with reverse(dir).
C6_Original ==
    \A e \in Entries :
        DelayOrGate(e) =>
            \A x \in e.enq :
                /\ <<x.sig[3], x.sig[4]>> =
                       <<Advance(e, BitOr(e.top[3], LayerOf(e))).pos_chunk,
                         Advance(e, BitOr(e.top[3], LayerOf(e))).pos_inner>>
                /\ BitAnd(x.sig[2], 31) =
                       BitAnd(Advance(e, BitOr(e.top[3], LayerOf(e))).dir_layer, 31)

\* The signal x has the value v, is queued for the next tick and is addressed
\* to the cell m (a result of advance).
NextTickTo(x, v, m) ==
    /\ x.at = 0
    /\ x.sig[1] = v
    /\ <<x.sig[3], x.sig[4]>> = <<m.pos_chunk, m.pos_inner>>
    /\ BitAnd(x.sig[2], 31) = BitAnd(m.dir_layer, 31)

\* A Splitter got a side-signal, and both advance(dir) and
\* advance(reverse(dir)) from its position are valid.
SplitterActs(e) ==
    /\ e.top[1] = "Splitter"
    /\ IsSide(e, e.top[2])
    /\ Advance(e, BitOr(e.top[2], LayerOf(e))).ok
    /\ Advance(e, BitOr(dir_rev(e.top[2]), LayerOf(e))).ok
    /\ e.halt = "no"

\* C7 as stated: a side-signal of value v delivered to Splitter(dir) enqueues
\* exactly two signals of value v for the next tick, one addressed to the
\* cell at advance(dir) and one to the cell at advance(reverse(dir)); a
\* front-signal delivered to a Splitter enqueues nothing.
C7_Original ==
    \A e \in Entries :
        /\ SplitterActs(e) =>
              \E x, y \in e.enq :
                  /\ x # y
                  /\ e.enq = {x, y}
                  /\ NextTickTo(x, e.sig[1], Advance(e, BitOr(e.top[2], LayerOf(e))))
                  /\ NextTickTo(y, e.sig[1],
                                Advance(e, BitOr(dir_rev(e.top[2]), LayerOf(e))))
        /\ (e.top[1] = "Splitter" /\ IsFront(e, e.top[2])) => e.enq = {}

\* What tick does with a Splitter: nothing, whatever the signal is.
C7_SplitterInert ==
    \A e \in Entries :
        e.top[1] = "Splitter" =>
            e.enq = {} /\ e.changed = {} /\ e.after = e.top /\ e.halt = "no"

\* A Splitter with valid cells on both sides got a side-signal and enqueued
\* nothing.
C7_SideSignalLost ==
    \E e \in Entries : SplitterActs(e) /\ e.sig[1] = <<0, 7>> /\ e.enq = {}

\* The bits of r are those of v and s combined by Op, bit by bit.
Bitwise(v, s, r, Op(_, _)) ==
    \A i \in 0..31 : BitOf(r, i) = Op(BitOf(v, i), BitOf(s, i))

OrBit(a, b) == IF a + b > 0 THEN 1 ELSE 0
AndBit(a, b) == a * b
XorBit(a, b) == (a + b) % 2

\* r = v mod s for s > 0: r < s and v = q * s + r for the quotient q.
IsRemainder(v, s, r) ==
    /\ LessL(r, s)
    /\ AddL(saturating_mul(DivMod(v, s).q, s), r) = [carry |-> 0, limbs |-> v]

\* What C8 says a side-signal s makes of the value v of a Storage of the
\* given mode: r.
SideResult(v, mode, s, r) ==
    CASE mode = 0 -> r = s
      [] mode = 1 -> Bitwise(v, s, r, OrBit)
      [] mode = 2 -> Bitwise(v, s, r, AndBit)
      [] mode = 3 -> Bitwise(v, s, r, XorBit)
      [] mode = 8 -> s # U32_ZERO /\ IsRemainder(v, s, r)
      [] mode \in 9..255 -> r = v

\* A Storage of one of the modes 0, 1, 2, 3, 8, 9..255 got a side-signal.
StorageSideCase(e) ==
    /\ e.top[1] = "Storage"
    /\ IsSide(e, e.top[4])
    /\ e.top[3] \in {0, 1, 2, 3, 8} \cup 9..255

\* C8 as stated: a side-signal s delivered to Storage(value, mode, dir)
\* replaces value by s (mode 0), value OR s (1), value AND s (2), value XOR s
\* (3), value mod s (8), leaves it unchanged for the modes 9 to 255; mode and
\* dir are unchanged and no signal is enqueued.
C8_Original ==
    \A e \in Entries :
        StorageSideCase(e) =>
            /\ e.halt = "no"
            /\ e.after[1] = "Storage"
            /\ SideResult(e.top[2], e.top[3], e.sig[1], e.after[2])
            /\ e.after[3] = e.top[3]
            /\ e.after[4] = e.top[4]
            /\ e.enq = {}

\* What holds instead: the same, but mode 8 with s = 0 panics.
C8_UnlessRemainderByZero ==
    \A e \in Entries :
        StorageSideCase(e) =>
            IF e.top[3] = 8 /\ e.sig[1] = U32_ZERO
            THEN e.halt = "panic"
            ELSE /\ e.halt = "no"
                 /\ e.after[1] = "Storage"
                 /\ SideResult(e.top[2], e.top[3], e.sig[1], e.after[2])
                 /\ e.after[3] = e.top[3]
                 /\ e.after[4] = e.top[4]
                 /\ e.enq = {}

\* A Storage of mode 8 got the side-signal 0 and no value replaced its value:
\* the tick panicked.
C8_ModZero ==
    \E e \in Entries : /\ StorageSideCase(e)
                       /\ e.top[3] = 8
                       /\ e.top[2] = <<0, 12>>
                       /\ e.sig[1] = U32_ZERO
                       /\ e.halt = "panic"

\* r = min(v + s, 2^32 - 1), without adding: v + s exceeds u32::MAX exactly
\* when v > u32::MAX - s, and otherwise r - s = v.
IsSaturatedSum(v, s, r) ==
    IF LessL(SubL(U32_MAX, s).limbs, v) THEN r = U32_MAX
    ELSE SubL(r, s) = [borrow |-> 0, limbs |-> v]

\* r = max(v - s, 0), without subtracting: otherwise r + s = v.
IsSaturatedDifference(v, s, r) ==
    IF LessL(v, s) THEN r = U32_ZERO
    ELSE AddL(r, s) = [carry |-> 0, limbs |-> v]

\* r = min(v * s, 2^32 - 1), without multiplying: v * s exceeds u32::MAX
\* exactly when v > floor(u32::MAX / s), and otherwise r / s = v exactly.
IsSaturatedProduct(v, s, r) ==
    IF s = U32_ZERO THEN r = U32_ZERO
    ELSE IF LessL(DivMod(U32_MAX, s).q, v) THEN r = U32_MAX
    ELSE DivMod(r, s) = [q |-> v, r |-> U32_ZERO]

\* r = floor(v / s) for s > 0 and 2^32 - 1 for s = 0, without dividing:
\* r * s <= v < r * s + s.
IsQuotient(v, s, r) ==
    IF s = U32_ZERO THEN r = U32_MAX
    ELSE /\ ~LessL(v, saturating_mul(r, s))
         /\ LessL(SubL(v, saturating_mul(r, s)).limbs, s)

\* A Storage of one of the modes 4..7 got a side-signal.
StorageArithmeticCase(e) ==
    /\ e.top[1] = "Storage"
    /\ IsSide(e, e.top[4])
    /\ e.top[3] \in 4..7

\* C9: Storage arithmetic saturates instead of wrapping in 32 bits: a
\* side-signal s makes the value min(value + s, 2^32 - 1) in mode 4,
\* max(value - s, 0) in mode 5, min(value * s, 2^32 - 1) in mode 6, and
\* floor(value / s) for s > 0, 2^32 - 1 for s = 0, in mode 7; in particular
\* u32::MAX - 5 in mode 4 with s = 10 becomes u32::MAX.
C9_ArithmeticSaturates ==
    \A e \in Delivered :
        StorageArithmeticCase(e) =>
            /\ e.halt = "no"
            /\ e.after[1] = "Storage"
            /\ e.top[3] = 4 => IsSaturatedSum(e.top[2], e.sig[1], e.after[2])
            /\ e.top[3] = 5 => IsSaturatedDifference(e.top[2], e.sig[1], e.after[2])
            /\ e.top[3] = 6 => IsSaturatedProduct(e.top[2], e.sig[1], e.after[2])
            /\ e.top[3] = 7 => IsQuotient(e.top[2], e.sig[1], e.after[2])
            /\ (e.top[3] = 4 /\ e.top[2] = <<65535, 65530>> /\ e.sig[1] = <<0, 10>>)
                   => e.after[2] = U32_MAX

\* C9 witness: Storage(u32::MAX - 5, mode 4) got the side-signal 10 and holds
\* u32::MAX.
C9_SumSaturated ==
    \E e \in Entries : /\ StorageArithmeticCase(e)
                       /\ e.top[3] = 4
                       /\ e.top[2] = <<65535, 65530>>
                       /\ e.sig[1] = <<0, 10>>
                       /\ e.after[2] = U32_MAX

\* The block on top of the stack of the tile t = <<x, y, layer>>.
TopOfTile(ls, t) == TopAt(ls, t[3], get_where(t[1], t[2])[1], get_where(t[1], t[2])[2])

\* The positions in the log lg of the side-signals delivered to a Gate on the
\* tile t.
GateSideSignals(lg, t) ==
    {i \in 1..Len(lg) : /\ lg[i].top[1] = "Gate"
                        /\ <<lg[i].sig[3], lg[i].sig[4]>> = get_where(t[1], t[2])
                        /\ BitAnd(lg[i].sig[2], 31) = t[3]
                        /\ is_side(lg[i].top[3], lg[i].sig[2])}

Latest(S) == CHOOSE m \in S : \A n \in S : n <= m

\* What the delivery of one signal to a Gate does.
GateEntry(e) ==
    IF IsSide(e, e.top[3])
    THEN /\ e.after = <<"Gate", e.sig[1] = U32_ZERO, e.top[3]>>
         /\ e.enq = {}
         /\ e.halt = "no"
    ELSE /\ e.after = e.top
         /\ e.changed = {}
         /\ IF e.top[2] /\ Advance(e, e.sig[2]).ok
            THEN /\ e.halt = "no"
                 /\ \E x \in e.enq : /\ e.enq = {x}
                                     /\ x.at = 0
                                     /\ x.sig[1] = e.sig[1]
            ELSE e.enq = {}

\* A step keeps the flag of a Gate that stays on top of the tile t, unless it
\* is a tick that delivers side-signals to it: then the flag says whether the
\* last of them had the value 0.  The direction is kept in every step.
GateFlagStep(t) ==
    (TopOfTile(layers, t)[1] = "Gate" /\ TopOfTile(layers', t)[1] = "Gate") =>
        /\ TopOfTile(layers', t)[3] = TopOfTile(layers, t)[3]
        /\ TopOfTile(layers', t)[2] =
               IF tickno' # tickno /\ GateSideSignals(log', t) # {}
               THEN log'[Latest(GateSideSignals(log', t))].sig[1] = U32_ZERO
               ELSE TopOfTile(layers, t)[2]

\* C10 (as amended): over any sequence of ticks a Gate's flag is that of its
\* placement until a side-signal is delivered to it, and from then on says
\* whether the most recent side-signal had the value 0; a side-signal
\* enqueues nothing and keeps dir; a front-signal leaves the Gate unchanged
\* and is forwarded (exactly one signal, of the original value, for the next
\* tick) if and only if the Gate is open and advancing one cell succeeds.
C10_GateForwardsIffOpen ==
    /\ [](\A e \in Delivered : e.top[1] = "Gate" => GateEntry(e))
    /\ [][\A t \in Tiles : GateFlagStep(t)]_vars

\* C10 witness: a closed Gate got a side-signal of value 0 and, in a later
\* tick, forwarded a front-signal.
C10_OpenedThenForwarded ==
    \E i, j \in 1..Len(hist) :
        /\ i < j
        /\ hist[i].top = <<"Gate", FALSE, DIR_RIGHT>>
        /\ IsSide(hist[i], DIR_RIGHT)
        /\ hist[i].sig[1] = U32_ZERO
        /\ hist[j].top = <<"Gate", TRUE, DIR_RIGHT>>
        /\ IsFront(hist[j], DIR_RIGHT)
        /\ hist[j].enq # {}

\* C10 as stated: an open Gate that gets a front-signal enqueues exactly one
\* signal with the original value (and a closed one nothing).
C10_Original ==
    \A e \in Entries :
        (e.top[1] = "Gate" /\ IsFront(e, e.top[3]) /\ e.halt = "no") =>
            IF e.top[2]
            THEN \E x \in e.enq : e.enq = {x} /\ x.sig[1] = e.sig[1]
            ELSE e.enq = {}

\* "front" and "behind" of a Move or Swap block: advance(dir) and
\* advance(reverse(dir)) from the position of the block the entry's signal
\* was delivered to.
FrontCell(e) == Advance(e, BitOr(e.top[2], LayerOf(e)))
BehindCell(e) == Advance(e, BitOr(dir_rev(e.top[2]), LayerOf(e)))

\* The stack at the cell m (a result of advance) in the layers ls.
CellStack(ls, m) == StackAt(ls, BitAnd(m.dir_layer, 31), m.pos_chunk, m.pos_inner)

\* A Swap got a side-signal, and both neighbouring positions are valid.
SwapActs(e) ==
    /\ e.top[1] = "Swap"
    /\ IsSide(e, e.top[2])
    /\ FrontCell(e).ok
    /\ BehindCell(e).ok
    /\ e.halt = "no"

\* The entry's changes are none, or the exchange of the top blocks of the
\* stacks at f and b, both non-empty.
TopsExchanged(e, f, b) ==
    \/ e.changed = {}
    \/ \E c1 \in ChangeAt(e, f), c2 \in ChangeAt(e, b) :
          /\ c1.pre # <<>> /\ c2.pre # <<>>
          /\ c1.post = SetLast(c1.pre, Last(c2.pre))
          /\ c2.post = SetLast(c2.pre, Last(c1.pre))
          /\ e.changed = {c1, c2}

\* What the entry did to the stacks sf (front) and sb (behind) it found.
SwapEffect(e, sf, sb) ==
    IF sf # <<>> /\ sb # <<>>
    THEN /\ TopsExchanged(e, FrontCell(e), BehindCell(e))
         /\ \A c \in ChangeAt(e, FrontCell(e)) : c.pre = sf
         /\ \A c \in ChangeAt(e, BehindCell(e)) : c.pre = sb
         /\ Last(sf) # Last(sb) => e.changed # {}
    ELSE e.changed = {}

\* The entries of the tick just taken before which that tick changed no stack:
\* the stacks they found are those of the state before the tick.
FirstToChange(i) == \A j \in 1..(i - 1) : log'[j].changed = {}

\* C11: a side-signal delivered to Swap(dir) with both neighbouring positions
\* valid exchanges the top blocks of the front and behind stacks when both are
\* non-empty and changes nothing else; when either stack is empty no stack
\* changes; the length of every stack is the same before and after, and no
\* signal is enqueued.
C11_SwapExchangesTops ==
    /\ [](\A e \in Entries :
             SwapActs(e) =>
                 /\ TopsExchanged(e, FrontCell(e), BehindCell(e))
                 /\ \A c \in e.changed : Len(c.post) = Len(c.pre)
                 /\ e.enq = {})
    /\ [][tickno' = tickno + 1 =>
             \A i \in 1..Len(log') :
                 (SwapActs(log'[i]) /\ FirstToChange(i)) =>
                     SwapEffect(log'[i], CellStack(layers, FrontCell(log'[i])),
                                CellStack(layers, BehindCell(log'[i])))]_vars

\* C11 witness: a Swap exchanged the top blocks of its two neighbouring
\* stacks, one of which holds a block below the top one.
C11_Exchanged ==
    \E e \in Entries :
        /\ SwapActs(e)
        /\ \E c1 \in ChangeAt(e, FrontCell(e)), c2 \in ChangeAt(e, BehindCell(e)) :
              /\ Len(c1.pre) + Len(c2.pre) > 2
              /\ Last(c1.post) = Last(c2.pre)
              /\ Last(c2.post) = Last(c1.pre)

\* The stack a Move block takes its block from: "behind" when the signal is
\* 0, "front" otherwise.
MoveSource(e) == IF e.sig[1] = U32_ZERO THEN BehindCell(e) ELSE FrontCell(e)

\* The stack the Move arm of tick pops: the one at advance(dir) when the
\* signal is 0, the one at advance(reverse(dir)) otherwise.
MovePopped(e) == IF e.sig[1] = U32_ZERO THEN FrontCell(e) ELSE BehindCell(e)

\* A side-signal reached a Move or a Swap block.
SideOfMove(e) == e.top[1] = "Move" /\ IsSide(e, e.top[2])
SideOfSwap(e) == e.top[1] = "Swap" /\ IsSide(e, e.top[2])

\* A target position of the entry's Move or Swap block is invalid.
TargetInvalid(e) == ~FrontCell(e).ok \/ ~BehindCell(e).ok

\* C12 as stated: a side-signal delivered to a Move block changes no stack
\* when advance(dir) or advance(reverse(dir)) fails or when the source stack
\* is empty, and a side-signal delivered to a Swap block changes no stack
\* when either target position is invalid or the front stack is empty.
C12_Original ==
    [][tickno' = tickno + 1 =>
          \A i \in 1..Len(log') :
              FirstToChange(i) =>
                  /\ (/\ SideOfMove(log'[i])
                      /\ \/ TargetInvalid(log'[i])
                         \/ CellStack(layers, MoveSource(log'[i])) = <<>>)
                         => log'[i].changed = {}
                  /\ (/\ SideOfSwap(log'[i])
                      /\ \/ TargetInvalid(log'[i])
                         \/ CellStack(layers, FrontCell(log'[i])) = <<>>)
                         => log'[i].changed = {}]_vars

\* What holds instead: no stack changes when a target position is invalid,
\* when the stack the Move arm pops is empty, or when a stack beside the
\* Swap is empty.
C12_NoChangeWhenPoppedEmpty ==
    [][tickno' = tickno + 1 =>
          \A i \in 1..Len(log') :
              FirstToChange(i) =>
                  /\ (/\ SideOfMove(log'[i])
                      /\ \/ TargetInvalid(log'[i])
                         \/ CellStack(layers, MovePopped(log'[i])) = <<>>)
                         => log'[i].changed = {}
                  /\ (/\ SideOfSwap(log'[i])
                      /\ \/ TargetInvalid(log'[i])
                         \/ CellStack(layers, FrontCell(log'[i])) = <<>>
                         \/ CellStack(layers, BehindCell(log'[i])) = <<>>)
                         => log'[i].changed = {}]_vars

\* A Move got a side-signal of value 0 while the stack behind it was empty,
\* and that stack got the block that was on top of the stack in front.
C12_EmptySourceFilled ==
    \E e \in Entries :
        /\ SideOfMove(e)
        /\ e.sig[1] = U32_ZERO
        /\ ~TargetInvalid(e)
        /\ \E c \in ChangeAt(e, BehindCell(e)) : c.pre = <<>> /\ Len(c.post) = 1

\* The entry's only change, if any: the stack its signal was delivered to
\* has the block nb in place of its top block.
OnlyTopSet(e, nb) ==
    \A c \in e.changed :
        /\ c.l = LayerOf(e) /\ c.chunk = e.sig[3] /\ c.inner = e.sig[4]
        /\ c.pre # <<>>
        /\ c.post = SetLast(c.pre, nb)

\* C13: any signal delivered to a stack whose top block is Color or Char sets
\* that block's stored value to the signal's value, whatever the direction of
\* the signal, keeps the variant, changes no other block and enqueues nothing.
C13_ColorCharTakeValue ==
    \A e \in Entries :
        e.top[1] \in {"Color", "Char"} =>
            /\ e.after = <<e.top[1], e.sig[1]>>
            /\ OnlyTopSet(e, <<e.top[1], e.sig[1]>>)
            /\ e.top[2] # e.sig[1] => e.changed # {}
            /\ e.enq = {}
            /\ e.kept
            /\ e.halt = "no"

\* C13 witness: a Char block holding 5 got a signal of value u32::MAX that
\* arrived from its right, travelling left, and holds u32::MAX.
C13_CharOverwritten ==
    \E e \in Entries : /\ e.top = <<"Char", <<0, 5>>>>
                       /\ is_same_dir(e.sig[2], DIR_LEFT)
                       /\ e.after = <<"Char", U32_MAX>>

\* The entry after entry i of the tick just taken is that of the signal that
\* followed it in the bucket the tick popped.
NextSignalRuns(i) ==
    i < Len(Head(signals_queue)) =>
        /\ Len(log') > i
        /\ log'[i + 1].sig = Head(signals_queue)[i + 1]

\* C14: a signal delivered to an empty stack is dropped: no block of any
\* stack of any layer changes, no signal is enqueued into any bucket, no
\* queued signal is touched, and the tick goes on with the signal that
\* follows in the bucket.
C14_EmptyStackDrops ==
    /\ [](\A e \in Entries :
             e.top = NoBlock =>
                 /\ e.changed = {}
                 /\ e.after = NoBlock
                 /\ e.enq = {}
                 /\ e.kept
                 /\ e.halt = "no")
    /\ [][tickno' = tickno + 1 =>
             \A i \in 1..Len(log') : log'[i].top = NoBlock => NextSignalRuns(i)]_vars

\* C14 witness: the first signal of a bucket found an empty stack, in a chunk
\* that did not exist, and the second signal of the bucket reached the
\* subject block.
C14_DroppedThenNext ==
    /\ Len(log) = 2
    /\ log[1].top = NoBlock
    /\ log[1].created # {}
    /\ log[2].top # NoBlock

\* A Delay got a side-signal.
SideOfDelay(e) == e.top[1] = "Delay" /\ IsSide(e, e.top[3])

\* C15: a side-signal of value v delivered to Delay(ticks, dir) sets ticks to
\* v, leaves dir and every other block unchanged and enqueues no signal into
\* any bucket; the signals that the Delay scheduled before keep their bucket,
\* so each is delivered by the tick fixed when it was forwarded.
C15_SideSignalSetsTicks ==
    /\ \A e \in Entries :
          SideOfDelay(e) =>
              /\ e.after = <<"Delay", e.sig[1], e.top[3]>>
              /\ OnlyTopSet(e, <<"Delay", e.sig[1], e.top[3]>>)
              /\ e.top[2] # e.sig[1] => e.changed # {}
              /\ e.enq = {}
              /\ e.kept
              /\ e.halt = "no"
    /\ \A e \in Entries : e.born.by = "Delay" => e.tk = e.born.at + e.born.delay + 1
    /\ \A p \in Pending : p.born.by = "Delay" => p.due = p.born.at + p.born.delay + 1

\* C15 witness: a Delay(2) forwarded a signal at tick 1, got the side-signal
\* 0 at tick 2, and the forwarded signal was delivered by tick 4.
C15_ReconfiguredWhilePending ==
    /\ \E e \in Entries : /\ SideOfDelay(e)
                          /\ e.tk = 2
                          /\ e.top[2] = <<0, 2>>
                          /\ e.after[2] = <<0, 0>>
    /\ \E e \in Entries : /\ e.born = [by |-> "Delay", at |-> 1, delay |-> 2]
                          /\ e.tk = 4

\* The length that bucket k of the queue left by a tick had, as bucket k + 1,
\* before the tick.
LenBefore(k) == IF k + 1 <= Len(signals_queue) THEN Len(signals_queue[k + 1]) ELSE 0

\* The signal at place j of bucket k of the queue left by the tick just taken
\* was enqueued by that tick.
EnqueuedByTick(k, j) ==
    \E i \in 1..Len(log') :
        [at |-> k - 1, ix |-> j, sig |-> signals_queue'[k][j]] \in log'[i].enq

\* C16: each tick advances the queue by one slot: the signals of bucket k
\* (k >= 1) before the tick are the first signals of bucket k - 1 after it, in
\* the same order, and whatever follows them there was enqueued by the tick
\* itself; so a signal that is in bucket k when n ticks have been taken is
\* delivered by tick n + k + 1, not earlier and not later.
C16_QueueShiftsByOne ==
    /\ [][tickno' = tickno + 1 =>
             /\ \A k \in 2..Len(signals_queue) :
                   /\ Len(signals_queue') >= k - 1
                   /\ Len(signals_queue'[k - 1]) >= Len(signals_queue[k])
                   /\ SubSeq(signals_queue'[k - 1], 1, Len(signals_queue[k]))
                          = signals_queue[k]
             /\ \A k \in 1..Len(signals_queue') :
                   \A j \in (LenBefore(k) + 1)..Len(signals_queue'[k]) :
                       EnqueuedByTick(k, j)]_vars
    /\ [](\A e \in Entries : e.tk = e.born.at + e.born.delay + 1)
    /\ [](\A p \in Pending : p.due = p.born.at + p.born.delay + 1)
    /\ [](\A k \in 1..Len(signals_queue) : Len(born[k]) = Len(signals_queue[k]))

\* C16 witness: a tick enqueued a signal into a bucket behind the two that
\* were there, and a signal loaded in bucket 2 was delivered by tick 3.
C16_ShiftedAndDelivered ==
    /\ \E e \in Entries : \E x \in e.enq : x.ix = 3
    /\ \E e \in Entries : e.born = [by |-> "load", at |-> 0, delay |-> 2] /\ e.tk = 3

\* What entry i of the tick just taken enqueued is in the queue the tick left.
StillQueued(i) ==
    \A x \in log'[i].enq :
        /\ x.at + 1 <= Len(signals_queue')
        /\ x.ix <= Len(signals_queue'[x.at + 1])
        /\ signals_queue'[x.at + 1][x.ix] = x.sig

\* C17: a tick that returns has processed the signals that were in bucket 0
\* when it started, each once and in their order, and nothing else: what was
\* enqueued while it ran (also by a Delay with ticks = 0) is in the queue it
\* leaves, so the loop of the tick ends with the last signal of that bucket.
C17_TickRunsItsBucketOnce ==
    [][(tickno' = tickno + 1 /\ halted' = "no") =>
          /\ Len(log') = Len(Head(signals_queue))
          /\ \A i \in 1..Len(log') :
                /\ log'[i].sig = Head(signals_queue)[i]
                /\ log'[i].born = Head(born)[i]
                /\ log'[i].tk = tickno'
                /\ StillQueued(i)]_vars

\* C17 witness: a Delay with ticks = 0 forwarded a signal at tick 1, and that
\* signal was delivered by tick 2.
C17_ForwardedNextTick ==
    \E e \in Entries : e.born = [by |-> "Delay", at |-> 1, delay |-> 0] /\ e.tk = 2

\* Entries i and j of the tick just taken went to the same stack.
SameStack(i, j) ==
    /\ LayerOf(log'[i]) = LayerOf(log'[j])
    /\ log'[i].sig[3] = log'[j].sig[3]
    /\ log'[i].sig[4] = log'[j].sig[4]

\* Entry j is the first after entry i that went to the stack of entry i.
NextOnStack(i, j) ==
    /\ i < j
    /\ SameStack(i, j)
    /\ \A k \in (i + 1)..(j - 1) : ~SameStack(i, k)

\* C18: within one tick the signals of the due bucket are applied in the
\* order in which they were pushed into it (a push puts a signal behind those
\* already there): the tick's entries follow the order of the bucket, a
\* signal finds the target stack as the signal before it on that stack left
\* it, and the stack is left as the last of them left it.
C18_BucketOrderIsPushOrder ==
    [][/\ npush' = npush + 1 =>
              /\ Len(Head(signals_queue')) = Len(Head(signals_queue)) + 1
              /\ SubSeq(Head(signals_queue'), 1, Len(Head(signals_queue)))
                     = Head(signals_queue)
       /\ (tickno' = tickno + 1 /\ halted' = "no") =>
              /\ Len(log') = Len(Head(signals_queue))
              /\ \A i \in 1..Len(log') :
                    /\ log'[i].sig = Head(signals_queue)[i]
                    /\ (\A k \in 1..(i - 1) : ~SameStack(k, i)) =>
                           log'[i].top = TopAt(layers, LayerOf(log'[i]), log'[i].sig[3],
                                               log'[i].sig[4])
                    /\ \A j \in 1..Len(log') :
                           NextOnStack(i, j) => log'[j].top = log'[i].after
                    /\ (\A k \in (i + 1)..Len(log') : ~SameStack(i, k)) =>
                           log'[i].after = TopAt(layers', LayerOf(log'[i]), log'[i].sig[3],
                                                 log'[i].sig[4])]_vars

\* C18 witness: two signals of one bucket, of values 1 and 2 in that order,
\* reached the same Color or Char block in one tick, and the block holds 2.
C18_LaterValueStays ==
    /\ Len(log) >= 2
    /\ log[1].sig[1] = <<0, 1>>
    /\ log[2].sig[1] = <<0, 2>>
    /\ log[1].sig[3] = log[2].sig[3] /\ log[1].sig[4] = log[2].sig[4]
    /\ log[1].sig[2] # log[2].sig[2]
    /\ log[2].top[2] = <<0, 1>>
    /\ log[2].after[2] = <<0, 2>>
    /\ TopAt(layers, LayerOf(log[2]), log[2].sig[3], log[2].sig[4])[2] = <<0, 2>>

\* C19: after Runner::new, in every state reached by ticks and by the
\* client's pushes into bucket 0, the queue has a bucket 0 (for the client
\* between ticks), it holds at least 2 buckets when tick pops bucket 0, and
\* so the queue that tick's loop works on has a bucket 0 again (for the
\* forwarding of Storage and Gate), as has the queue every tick leaves.
C19_QueueNeverEmpty ==
    /\ [](/\ Len(signals_queue) >= 1
          /\ Len(WithSecondBucket(signals_queue)) >= 2
          /\ Len(Tail(WithSecondBucket(signals_queue))) >= 1)
    /\ [][tickno' = tickno + 1 => Len(signals_queue') >= Len(signals_queue) - 1]_vars
    /\ [][npush' = npush + 1 =>
             /\ Len(signals_queue') = Len(signals_queue)
             /\ Len(signals_queue'[1]) = Len(signals_queue[1]) + 1]_vars

\* C19 witness: from a queue of one bucket, a Gate forwarded into bucket 0
\* during tick 1, the client pushed into bucket 0, tick 2 delivered both
\* signals and left a queue of one bucket.
C19_OneBucketTicked ==
    /\ tickno = 2
    /\ Len(signals_queue) = 1
    /\ \E e \in Entries : e.tk = 1 /\ e.top[1] = "Gate" /\ e.enq # {}
    /\ \E e \in Entries : e.tk = 2 /\ e.born.by = "Gate"
    /\ \E e \in Entries : e.tk = 2 /\ e.born.by = "client"
    /\ \A e \in Entries : e.born.by = "load" => e.born.delay = 0

\* get_mut was called on the key chunk of layer l (by itself or for a push).
Called(l, chunk) == \E i \in 1..Len(hist) : hist[i] = [l |-> l, chunk |-> chunk]

\* A chunk of exactly 256 empty stacks.
AllEmpty(c) == Len(c) = 256 /\ \A i \in 1..Len(c) : c[i] = <<>>

\* C20: chunks are lazy.  get returns none for a key on which get_mut was
\* never called, returns the chunk after it was, and never changes the
\* layers; the first get_mut on a key materialises a chunk of exactly 256
\* empty stacks, which get then returns, and changes nothing else; a later
\* get_mut on the key returns the chunk that is there, with its contents.
C20_ChunksAreLazy ==
    /\ [](addr.op = "get" =>
             /\ addr.res.some = Called(addr.l, addr.chunk)
             /\ addr.res.some => addr.res.chunk = layers[addr.l + 1][addr.chunk])
    /\ [](\A l \in 0..(NumLayers - 1) : \A k \in DOMAIN layers[l + 1] : Called(l, k))
    /\ [][addr'.op = "get" => layers' = layers]_vars
    /\ [][addr'.op = "get_mut" =>
             /\ get(layers'[addr'.l + 1], addr'.chunk)
                    = [some |-> TRUE, chunk |-> addr'.res]
             /\ \A l \in 0..(NumLayers - 1) :
                   \A k \in DOMAIN layers'[l + 1] :
                       (l # addr'.l \/ k # addr'.chunk) =>
                           (k \in DOMAIN layers[l + 1] /\ layers'[l + 1][k] = layers[l + 1][k])
             /\ IF Called(addr'.l, addr'.chunk)
                THEN /\ addr'.res = layers[addr'.l + 1][addr'.chunk]
                     /\ layers' = layers
                ELSE /\ AllEmpty(addr'.res)
                     /\ addr'.chunk \notin DOMAIN layers[addr'.l + 1]]_vars

\* C20 witness: get_mut was called on a key of layer 31 on which it had been
\* called before, and returned the chunk with the block that was pushed on
\* its last stack; the same key of layer 0 has no chunk.
C20_SecondGetMutKeepsBlock ==
    /\ addr.op = "get_mut"
    /\ addr.l = 31
    /\ addr.res[256] = <<<<"Color", U32_MAX>>>>
    /\ ~Called(0, addr.chunk)
    /\ ~get(layers[1], addr.chunk).some

\* C21: once a chunk key is materialised in a layer it stays in that layer's
\* chunk set in every later state, whatever get, get_mut, placement or tick
\* follows, also when all 256 stacks of the chunk are empty.
C21_ChunksStay ==
    [][\A l \in 0..(NumLayers - 1) : DOMAIN layers[l + 1] \subseteq DOMAIN layers'[l + 1]]_vars

\* C21 witness: a Move took the only block of a chunk away, and the chunk, all
\* of its stacks empty, is in its layer after a later tick.
C21_EmptyChunkKept ==
    \E e \in Entries :
        /\ e.top[1] = "Move"
        /\ e.tk < tickno
        /\ \E c \in e.changed :
              /\ c.pre # <<>>
              /\ c.post = <<>>
              /\ c.chunk \in DOMAIN layers[c.l + 1]
              /\ AllEmpty(layers[c.l + 1][c.chunk])

\* -2^35 <= x < 2^35: the tiles whose chunk coordinate is a 32-bit value.
InKeyRange(x) == (x[1] = 0 /\ x[2] < 8) \/ (x[1] = 65535 /\ x[2] >= 65528)

\* The i64 of the 32-bit two's-complement value h.
SignExtended(h) == IF h[1] >= 32768 THEN <<65535, 65535>> \o h ELSE <<0, 0>> \o h

\* c = floor(x / 16) and r = x mod 16, said without division: x = 16 * c + r
\* and 0 <= r < 16, for the 32-bit value c taken as an integer.
FloorAndResidue(x, c, r) ==
    /\ r \in 0..15
    /\ AddL(Mul16(SignExtended(c)), I64(r)).limbs = x

\* What C22 says of one result of locate: it returned, the low half of the key
\* is floor(x / 16), the high half floor(y / 16), and the index is
\* (y mod 16) * 16 + (x mod 16).
LocatedByFloor(x, y, res) ==
    /\ ~res.panic
    /\ res.inchunk \in 0..255
    /\ FloorAndResidue(x, <<res.chunk[3], res.chunk[4]>>, res.inchunk % 16)
    /\ FloorAndResidue(y, <<res.chunk[1], res.chunk[2]>>, res.inchunk \div 16)

\* C22 (as amended): for every tile (x, y) with -2^35 <= x, y < 2^35, locate
\* returns the chunk coordinates floor(x / 16) and floor(y / 16), rounded down
\* and not toward zero, as 32-bit two's-complement values in the low and the
\* high half of the key, and the index (y mod 16) * 16 + (x mod 16); locate of
\* (-1, -1) is chunk (-1, -1) index 255, and locate of (0, 0) is chunk (0, 0)
\* index 0.  (On small tiles get_where64 is get_where.)
C22_LocateFloorsInKeyRange ==
    /\ addr.op = "locate" =>
          /\ (InKeyRange(addr.x) /\ InKeyRange(addr.y)) =>
                 LocatedByFloor(addr.x, addr.y, addr.res)
          /\ (addr.x = I64(-1) /\ addr.y = I64(-1)) =>
                 addr.res.chunk = <<65535, 65535, 65535, 65535>> /\ addr.res.inchunk = 255
          /\ (addr.x = I64_ZERO /\ addr.y = I64_ZERO) =>
                 addr.res.chunk = <<0, 0, 0, 0>> /\ addr.res.inchunk = 0
    /\ \A x \in AddrCoords, y \in AddrCoords :
          /\ get_where64(overflow_checks, I64(x), I64(y)).chunk = get_where(x, y)[1]
          /\ get_where64(overflow_checks, I64(x), I64(y)).inchunk = get_where(x, y)[2]

\* C22 witness: locate of (-17, -1) gave chunk (-2, -1) and index 255.
C22_NegativeTileFloored ==
    /\ addr.op = "locate"
    /\ addr.x = I64(-17) /\ addr.y = I64(-1)
    /\ addr.res.chunk = <<65535, 65535, 65535, 65534>>
    /\ addr.res.inchunk = 255

\* C22 as stated: for every integer tile (x, y) locate returns the chunk
\* coordinates floor(x / 16), floor(y / 16) as 32-bit two's-complement values
\* and the index (y mod 16) * 16 + (x mod 16).
C22_Original ==
    addr.op = "locate" => LocatedByFloor(addr.x, addr.y, addr.res)

\* 0 <= x < 2^35
InNonNegativeKeyRange(x) == x[1] = 0 /\ x[2] < 8

\* C23 (supporting): for tiles with 0 <= x, y < 2^35 the overlay's
\* reconstruction from locate(x, y) is (x, y).
C23_NonNegativeReproduced ==
    (addr.op = "locate" /\ InNonNegativeKeyRange(addr.x) /\ InNonNegativeKeyRange(addr.y)) =>
        (~addr.res.panic /\ addr.back = [x |-> addr.x, y |-> addr.y])

\* C23 witness: locate(-1, -1) gave chunk (-1, -1) index 255, and the overlay
\* made the tile (2^36 - 1, 2^36 - 1) of it.
C23_NegativeTileMoved ==
    /\ addr.op = "locate"
    /\ addr.x = I64(-1) /\ addr.y = I64(-1)
    /\ addr.res.inchunk = 255
    /\ addr.back = [x |-> <<0, 15, 65535, 65535>>, y |-> <<0, 15, 65535, 65535>>]

\* C23 as stated: for all integer (x, y), re-deriving the tile from
\* locate(x, y) as the overlay does reproduces (x, y).
C23_Original ==
    addr.op = "locate" =>
        (~addr.res.panic /\ addr.back = [x |-> addr.x, y |-> addr.y])

\* The 3-bit direction code and the layer of a dir_layer byte.
DirCode(dl) == dl \div 32
LayerBits(dl) == dl % 32

\* The call returned failure and no argument changed.
AdvanceFailed ==
    /\ ~addr.res.ok /\ ~addr.res.panic
    /\ addr.res.dir_layer = addr.dir_layer
    /\ addr.res.pos_chunk = addr.pos_chunk
    /\ addr.res.pos_inner = addr.pos_inner

\* The call succeeded, the layer changed by by, and direction code, chunk key
\* and index did not change.
AdvancedLayerBy(by) ==
    /\ addr.res.ok /\ ~addr.res.panic
    /\ LayerBits(addr.res.dir_layer) = LayerBits(addr.dir_layer) + by
    /\ DirCode(addr.res.dir_layer) = DirCode(addr.dir_layer)
    /\ addr.res.pos_chunk = addr.pos_chunk
    /\ addr.res.pos_inner = addr.pos_inner

\* C24: for a layer direction advance succeeds exactly when the resulting
\* layer stays in 0..31: layer-up (001) from layer L > 0 gives layer L - 1,
\* layer-down (110) from layer L < 31 gives layer L + 1, both with chunk key
\* and index unchanged; layer-up from layer 0, layer-down from layer 31 and
\* the two illegal codes 000 and 111 report failure and leave dir_layer,
\* chunk key and index unchanged.
C24_LayerAdvanceInBounds ==
    addr.op = "pos_moved" =>
        /\ (DirCode(addr.dir_layer) = 1 /\ LayerBits(addr.dir_layer) > 0) => AdvancedLayerBy(-1)
        /\ (DirCode(addr.dir_layer) = 6 /\ LayerBits(addr.dir_layer) < 31) => AdvancedLayerBy(1)
        /\ (DirCode(addr.dir_layer) = 1 /\ LayerBits(addr.dir_layer) = 0) => AdvanceFailed
        /\ (DirCode(addr.dir_layer) = 6 /\ LayerBits(addr.dir_layer) = 31) => AdvanceFailed
        /\ DirCode(addr.dir_layer) \in {0, 7} => AdvanceFailed
        /\ DirCode(addr.dir_layer) \in {1, 6} =>
              (addr.res.ok <=> LayerBits(addr.dir_layer)
                                 + (IF DirCode(addr.dir_layer) = 1 THEN -1 ELSE 1) \in 0..31)

\* C24 witness: layer-down was asked from layer 31 and failed, nothing changed.
C24_DownFromLastLayerFailed ==
    /\ addr.op = "pos_moved"
    /\ addr.dir_layer = DIR_DOWN_L + 31
    /\ AdvanceFailed

\* The 3-bit code of the direction opposite to the one of code c: left (100)
\* and right (011), up (010) and down (101), layer-up (001) and layer-down
\* (110); the two illegal codes are each other's.
OppositeCode(c) == 7 - c

\* C25: for every byte d, reverse(reverse(d)) = d and reverse leaves the low 5
\* layer bits unchanged; reverse maps each of the 6 legal direction codes to
\* the legal code of the opposite direction; same_direction ignores the layer
\* bits; and is_side(a, b) is true exactly when a's direction is neither b's
\* direction nor the reverse of b's direction, so
\* is_side(a, b) = is_side(a, reverse(b)) = is_side(reverse(a), b).
C25_DirectionAlgebra ==
    /\ addr.op = "dirs" =>
          /\ addr.rev_rev = addr.a
          /\ LayerBits(addr.rev) = LayerBits(addr.a)
          /\ DirCode(addr.rev) = OppositeCode(DirCode(addr.a))
          /\ addr.same <=> (DirCode(addr.a) = DirCode(addr.b))
          /\ addr.side <=> (DirCode(addr.a) \notin {DirCode(addr.b), OppositeCode(DirCode(addr.b))})
          /\ addr.side = addr.side_rev_b
          /\ addr.side = addr.side_rev_a
    /\ dir_rev(DIR_LEFT) = DIR_RIGHT /\ dir_rev(DIR_RIGHT) = DIR_LEFT
    /\ dir_rev(DIR_UP) = DIR_DOWN /\ dir_rev(DIR_DOWN) = DIR_UP
    /\ dir_rev(DIR_UP_L) = DIR_DOWN_L /\ dir_rev(DIR_DOWN_L) = DIR_UP_L

\* C25 witness: a block facing left on layer 21 and a signal travelling right
\* on layer 31: neither the same direction nor a side.
C25_ReverseIsNoSide ==
    /\ addr.op = "dirs"
    /\ addr.a = DIR_LEFT + 21 /\ addr.b = DIR_RIGHT + 31
    /\ addr.rev = DIR_RIGHT + 21
    /\ ~addr.same /\ ~addr.side

\* C26: for every World whose blocks carry legal direction codes (also with
\* materialised chunks of only empty stacks, stacks of several blocks, every
\* Block variant, and a queue with more than 2 non-empty buckets), loading
\* what save wrote yields for each of the 32 layers the same set of chunk
\* keys, the same blocks in the same bottom-to-top order in each of the 256
\* stacks, and the same number of queue buckets with the same signals in the
\* same order in each bucket.
C26_SaveLoadRoundTrip ==
    addr.op = "save_load" =>
        /\ addr.loaded.kind = "Some"
        /\ \A l \in 1..NumLayers :
              /\ DOMAIN addr.loaded.layers[l] = DOMAIN layers[l]
              /\ \A k \in DOMAIN layers[l] : \A i \in 1..ChunkLen :
                    addr.loaded.layers[l][k][i] = layers[l][k][i]
        /\ Len(addr.loaded.signals_queue) = Len(signals_queue)
        /\ \A i \in 1..Len(signals_queue) : addr.loaded.signals_queue[i] = signals_queue[i]

\* C26 witness: a world with a stack of every variant, a chunk of only empty
\* stacks beside it and a queue with 3 non-empty buckets was saved and loaded.
C26_RichWorldReloaded ==
    /\ addr.op = "save_load"
    /\ addr.loaded.kind = "Some"
    /\ \E l \in 1..NumLayers :
          /\ \E k \in DOMAIN layers[l] : \E i \in 1..ChunkLen : layers[l][k][i] = EveryVariant
          /\ \E k \in DOMAIN addr.loaded.layers[l] : AllEmpty(addr.loaded.layers[l][k])
    /\ Cardinality({i \in 1..Len(addr.loaded.signals_queue) : addr.loaded.signals_queue[i] # <<>>}) > 2
    /\ addr.order[1] = OtherChunk

\* Decoding gave the block that was encoded and stopped after its bytes.
DecodedSame ==
    /\ addr.back.ok
    /\ addr.back.v = addr.block
    /\ addr.back.pos = Len(addr.bytes) + 1

\* A Gate whose direction byte has bit 0 set.
OddGate(b) == b[1] = "Gate" /\ b[3] % 2 = 1

\* C27 (as amended): for every Block value (every variant, every u32 field
\* value, every mode byte, both Gate open states, and every direction byte
\* except, for a Gate, those with bit 0 set), decoding the bytes produced by
\* encoding it returns the identical Block and consumes exactly the bytes
\* written; in particular Gate(open, dir) with an even dir, whose open flag
\* is packed into bit 0 of the direction byte, decodes to the same open and
\* the same dir.
C27_BlockRoundTripButOddGate ==
    (addr.op = "block" /\ ~OddGate(addr.block)) => DecodedSame

\* C27 witness: an open Gate facing down-layer was written as 'g' and
\* 0b11000001 and read back as the same Gate.
C27_OpenGateReloaded ==
    /\ addr.op = "block"
    /\ addr.block = <<"Gate", TRUE, DIR_DOWN_L>>
    /\ addr.bytes = <<103, DIR_DOWN_L + 1>>
    /\ DecodedSame

\* C27 as stated: for every Block value, every direction byte included,
\* decoding the bytes produced by encoding it returns the identical Block and
\* consumes exactly the bytes written.
C27_Original == addr.op = "block" => DecodedSame

\* C28: decoding any proper prefix of a valid Layer or signal-queue encoding
\* returns no value, and decoding an encoding in which a block tag byte is
\* replaced by any byte outside {c, C, d, s, g, G, m, M} returns no value; a
\* decode never returns a partially filled Layer, stack or queue.  (The
\* files are valid: decoding a whole file returns a value and ends at the
\* file's end, and every position of tags holds a tag.)
C28_DecodingIsStrict ==
    /\ addr.op \in {"prefix", "bad_tag"} => addr.res = NoValue
    /\ addr.op = "whole" => (addr.res.ok /\ addr.res.pos = addr.len + 1)
    /\ addr.op = "file" => \A p \in addr.file.tags : addr.file.bytes[p] \in TagBytes

\* C28 witness: the layer file of two chunks, cut inside the very last block
\* (one byte short), gave no value.
C28_LastByteMissing ==
    /\ addr.op = "prefix"
    /\ addr.kind = "Layer"
    /\ addr.len = 8 + (2 * (8 + (8 * ChunkLen))) + 2
    /\ addr.at = addr.len - 1
    /\ addr.res = NoValue

\* load_from_dir comes to file f and the file can be opened and read: the I/O
\* failure, if any, is at a later file.
ReadsFile(f) == addr.io = 0 \/ addr.io > f

\* load_from_dir comes to file f: no earlier file is damaged or unreadable.
ComesTo(f) == (addr.bad = 0 \/ addr.bad >= f) /\ (addr.io = 0 \/ addr.io >= f)

PlacesOf(ls, variant) ==
    UNION {UNION {UNION {{<<l, k, i, j>> : j \in {h \in 1..Len(ls[l][k][i]) :
                                                     ls[l][k][i][h][1] = variant}} :
                         i \in 1..ChunkLen} :
                  k \in DOMAIN ls[l]} :
           l \in 1..NumLayers}

Variants == {"Color", "Char", "Delay", "Storage", "Gate", "Splitter", "Move", "Swap"}

\* What the signal of entry e changed is the block on top of its own stack,
\* which kept its variant: no block came, left or moved.
ChangedInPlace(e) ==
    \A c \in e.changed :
        /\ c.l = BitAnd(e.sig[2], 31) /\ c.chunk = e.sig[3] /\ c.inner = e.sig[4]
        /\ Len(c.post) = Len(c.pre)
        /\ Pop(c.post) = Pop(c.pre)
        /\ Last(c.post)[1] = Last(c.pre)[1]

\* C30: tick never creates or destroys a block: the number of blocks of each
\* variant over all stacks of all 32 layers (and so their total) is the same
\* before and after every tick; Color, Char, Storage, Delay and Gate blocks
\* change only their own fields, and a block leaves its stack only by being
\* relocated to another stack by a Move or Swap.
C30_TickKeepsBlocks ==
    /\ [][tickno' = tickno + 1 =>
             \A variant \in Variants :
                 Cardinality(PlacesOf(layers', variant)) = Cardinality(PlacesOf(layers, variant))]_vars
    /\ [](\A e \in Delivered : e.top[1] \notin {"Move", "Swap"} => ChangedInPlace(e))

\* C30 witness: a Move took the top block of one stack and put it on another
\* stack, and a tick has ended since.
C30_BlockRelocated ==
    \E e \in Entries :
        /\ e.top[1] = "Move"
        /\ e.tk <= tickno
        /\ \E c \in e.changed, d \in e.changed :
              /\ Len(c.post) = Len(c.pre) - 1
              /\ d.post = Append(d.pre, Last(c.pre))
              /\ <<c.l, c.chunk, c.inner>> # <<d.l, d.chunk, d.inner>>

\* The world the loading thread came back with, as Runner::new takes it.
HandedOver ==
    /\ addr.thread.status = "finished"
    /\ addr.thread.outcome.kind = "Some"
    /\ layers' = addr.thread.outcome.layers
    /\ signals_queue' = RunnerNew(addr.thread.outcome.signals_queue)

BigEndian(bs, ls) ==
    /\ Len(bs) = 2 * Len(ls)
    /\ \A i \in 1..Len(ls) :
          /\ bs[(2 * i) - 1] \in 0..255 /\ bs[2 * i] \in 0..255
          /\ (bs[(2 * i) - 1] * 256) + bs[2 * i] = ls[i]

\* The n bytes of file from position p on.
Field(file, p, n) == SubSeq(file, p, p + n - 1)

\* The widths of the fields of a block in declaration order; packed says
\* whether Gate's open and dir share one byte.
FieldWidths(b, packed) ==
    CASE b[1] \in {"Color", "Char"} -> <<4>>
      [] b[1] = "Delay" -> <<4, 1>>
      [] b[1] = "Storage" -> <<4, 1, 1>>
      [] b[1] = "Gate" -> IF packed THEN <<1>> ELSE <<1, 1>>
      [] OTHER -> <<1>>

SumOf(ws) == IF ws = <<>> THEN 0 ELSE IF Len(ws) = 1 THEN ws[1]
             ELSE IF Len(ws) = 2 THEN ws[1] + ws[2] ELSE ws[1] + ws[2] + ws[3]

TagOf(b) ==
    CASE b[1] = "Color" -> 99 [] b[1] = "Char" -> 67 [] b[1] = "Delay" -> 100
      [] b[1] = "Storage" -> 115 [] b[1] = "Gate" -> 103 [] b[1] = "Splitter" -> 71
      [] b[1] = "Move" -> 109 [] b[1] = "Swap" -> 77

\* The block b is laid out in file from position p on: its tag, then each
\* field in declaration order (a u32 big-endian, a u8 or bool as one byte).
BlockAt(file, p, b, packed) ==
    /\ file[p] = TagOf(b)
    /\ CASE b[1] \in {"Color", "Char"} -> BigEndian(Field(file, p + 1, 4), b[2])
         [] b[1] = "Delay" ->
               BigEndian(Field(file, p + 1, 4), b[2]) /\ file[p + 5] = b[3]
         [] b[1] = "Storage" ->
               /\ BigEndian(Field(file, p + 1, 4), b[2])
               /\ file[p + 5] = b[3]
               /\ file[p + 6] = b[4]
         [] b[1] = "Gate" ->
               IF packed THEN file[p + 1] = (IF b[2] THEN BitOr(b[3], 1) ELSE b[3])
               ELSE file[p + 1] = (IF b[2] THEN 1 ELSE 0) /\ file[p + 2] = b[3]
         [] OTHER -> file[p + 1] = b[2]

\* The sum of ws[lo], ..., ws[hi], by halves.
RECURSIVE SumOfWidths(_, _, _)
SumOfWidths(ws, lo, hi) ==
    IF lo > hi THEN 0
    ELSE IF lo = hi THEN ws[lo]
    ELSE SumOfWidths(ws, lo, (lo + hi) \div 2) + SumOfWidths(ws, ((lo + hi) \div 2) + 1, hi)

\* Where each of the items lo..hi starts when item lo starts at base and item
\* i is ws[i] wide, by halves.
RECURSIVE Offsets(_, _, _, _)
Offsets(ws, lo, hi, base) ==
    IF lo = hi THEN <<base>>
    ELSE Offsets(ws, lo, (lo + hi) \div 2, base)
            \o Offsets(ws, ((lo + hi) \div 2) + 1, hi,
                       base + SumOfWidths(ws, lo, (lo + hi) \div 2))

BlockWidth(b, packed) == 1 + SumOf(FieldWidths(b, packed))

\* The 8-byte big-endian count n at position p.
CountAt(file, p, n) == BigEndian(Field(file, p, 8), <<0, 0, n \div Limb, n % Limb>>)

\* The width of the stack's encoding, and of the first i - 1 of its blocks.
StackWidth(stack, packed) ==
    8 + SumOfWidths([i \in 1..Len(stack) |-> BlockWidth(stack[i], packed)], 1, Len(stack))

\* The stack is laid out from p on: the count, then exactly its blocks.
StackLaidAt(file, p, stack, packed) ==
    /\ CountAt(file, p, Len(stack))
    /\ \A i \in 1..Len(stack) :
          BlockAt(file, p + StackWidth(SubSeq(stack, 1, i - 1), packed), stack[i], packed)

\* A signal: value (4 bytes), dir_layer (1), chunk key (8), index (1).
SignalAt(file, p, s) ==
    /\ BigEndian(Field(file, p, 4), s[1])
    /\ file[p + 4] = s[2]
    /\ BigEndian(Field(file, p + 5, 8), s[3])
    /\ file[p + 13] = s[4]

BucketWidth(bucket) == 8 + (14 * Len(bucket))
BucketAt(file, p, bucket) ==
    /\ CountAt(file, p, Len(bucket))
    /\ \A j \in 1..Len(bucket) : SignalAt(file, p + 8 + (14 * (j - 1)), bucket[j])

\* The signals file: the count of buckets, then exactly the buckets.
QueueLaidOut(file, queue) ==
    /\ CountAt(file, 1, Len(queue))
    /\ \A k \in 1..Len(queue) :
          BucketAt(file,
                   9 + SumOfWidths([i \in 1..Len(queue) |-> BucketWidth(queue[i])], 1, k - 1),
                   queue[k])
    /\ Len(file) = 8 + SumOfWidths([i \in 1..Len(queue) |-> BucketWidth(queue[i])], 1, Len(queue))

\* A chunk: its 8-byte key, then exactly 256 stack encodings.
ChunkWidth(chunk, packed) ==
    8 + SumOfWidths([i \in 1..ChunkLen |-> StackWidth(chunk[i], packed)], 1, ChunkLen)
ChunkAt(file, p, key, chunk, packed) ==
    /\ BigEndian(Field(file, p, 8), key)
    /\ \E at \in {Offsets(<<>> \o [j \in 1..ChunkLen |-> StackWidth(chunk[j], packed)],
                           1, ChunkLen, p + 8)} :
          \A i \in 1..ChunkLen : StackLaidAt(file, at[i], chunk[i], packed)

\* A layer file: the count of chunks, then exactly the chunks, in the order
\* the map was iterated in.
LayerLaidOut(file, layer, order, packed) ==
    /\ CountAt(file, 1, Len(order))
    /\ \A c \in 1..Len(order) :
          ChunkAt(file,
                  9 + SumOfWidths([i \in 1..Len(order) |-> ChunkWidth(layer[order[i]], packed)],
                                  1, c - 1),
                  order[c], layer[order[c]], packed)
    /\ Len(file) = 8 + SumOfWidths([i \in 1..Len(order) |-> ChunkWidth(layer[order[i]], packed)],
                                   1, Len(order))

\* What save_to_dir wrote has the layout, for the queue and every layer.
SavedAsLaidOut(packed) ==
    addr.op = "save_load"
        => /\ QueueLaidOut(save_VecDeque(signals_queue), signals_queue)
           /\ \A l \in 1..NumLayers :
                 LayerLaidOut(save_Layer(layers[l], IterOrder(addr.order, layers[l])),
                              layers[l], IterOrder(addr.order, layers[l]), packed)

\* C32: the bytes written are laid out as stated: u32 and u64 big-endian in 4
\* and 8 bytes; a stack, a bucket, the queue and the chunk map as an 8-byte
\* big-endian count followed by exactly that many elements; a chunk as its
\* 8-byte key and exactly 256 stacks; a signal as value, dir_layer, chunk key
\* and index in 4, 1, 8 and 1 bytes; a block as its tag byte followed by its
\* fields in declaration order, where the two fields of a Gate are one byte:
\* dir with bit 0 set when the gate is open.
C32_LayoutIsFixed == SavedAsLaidOut(TRUE)

\* C32 as stated: every block, a Gate too, is its tag followed by one
\* encoding for each of its fields in declaration order.
C32_Original == SavedAsLaidOut(FALSE)

\* A stack of every variant with an open and a closed Gate, a second chunk
\* and a queue of several buckets were written.
C32_EveryVariantWritten ==
    /\ addr.op = "save_load"
    /\ \E l \in 1..NumLayers :
          /\ Cardinality(DOMAIN layers[l]) = 2
          /\ \E k \in DOMAIN layers[l] : \E i \in 1..ChunkLen : layers[l][k][i] = EveryVariant
    /\ Len(signals_queue) > 2
    /\ addr.order[1] = OtherChunk

\* The entry's signal arrived along the block's direction or its reverse.
AlongOrAgainst(e, direction) ==
    DirCode(e.sig[2]) \in {DirCode(direction), OppositeCode(DirCode(direction))}

\* C33: a signal whose arrival direction is the dir of the Move or Swap block
\* it is delivered to, or the reverse of that dir, changes no stack and no
\* block, creates no chunk and does not stop the tick; and no signal
\* delivered to a Move or Swap block, from the side or not, enqueues a signal.
C33_MoveSwapSideOnly ==
    \A e \in Entries :
        e.top[1] \in {"Move", "Swap"} =>
            /\ e.enq = {}
            /\ AlongOrAgainst(e, e.top[2]) =>
                  /\ e.changed = {}
                  /\ e.created = {}
                  /\ e.after = e.top
                  /\ e.halt = "no"

\* C33 witness: a signal against the direction of a Swap block between two
\* filled stacks was delivered, and a tick has ended since.
C33_ReverseSignalIgnored ==
    \E e \in Entries :
        /\ e.top[1] = "Swap"
        /\ e.tk <= tickno
        /\ DirCode(e.sig[2]) = OppositeCode(DirCode(e.top[2]))
        /\ FrontCell(e).ok /\ BehindCell(e).ok
        /\ CellStack(layers, FrontCell(e)) # <<>>
        /\ CellStack(layers, BehindCell(e)) # <<>>
        /\ CellStack(layers, FrontCell(e)) # CellStack(layers, BehindCell(e))

\* Every block below the topmost one of the stack pre is, in the stack post,
\* the same block at the same height.
BelowKept(pre, post) ==
    \A i \in 1..(Len(pre) - 1) : i <= Len(post) /\ post[i] = pre[i]

\* The change is of the stack the entry's signal was delivered to.
AtTarget(e, c) == c.l = BitAnd(e.sig[2], 31) /\ c.chunk = e.sig[3] /\ c.inner = e.sig[4]

\* Every stack of the layers pre keeps, in the layers post, what is below its top.
AllBelowKept(pre, post) ==
    \A l \in 1..NumLayers : \A k \in DOMAIN pre[l] : \A i \in 1..ChunkLen :
        BelowKept(pre[l][k][i], StackAt(post, l - 1, k, i - 1))

\* C34: the delivery of a signal touches only stack tops: in every stack,
\* every block below the block that is topmost when the signal is delivered
\* keeps its variant, fields and position through that delivery; the stack
\* the signal is delivered to keeps its height and all but its top block;
\* only a Move or a Swap block changes another stack, by removing, replacing
\* or covering its top.  A tick that delivers one signal therefore keeps
\* every block below a top.  (A tick that delivers several signals can reach
\* a block that was below the top when the tick began, after an earlier
\* signal of the tick moved away what lay on it.)
C34_DeliveryTouchesTopsOnly ==
    /\ [](\A e \in Entries : \A c \in e.changed :
             /\ BelowKept(c.pre, c.post)
             /\ AtTarget(e, c) =>
                   /\ Len(c.post) = Len(c.pre)
                   /\ SubSeq(c.post, 1, Len(c.pre) - 1) = SubSeq(c.pre, 1, Len(c.pre) - 1)
             /\ ~AtTarget(e, c) => e.top[1] \in {"Move", "Swap"})
    /\ [][(tickno' = tickno + 1 /\ Len(log') = 1) => AllBelowKept(layers, layers')]_vars

\* C34 as stated: through any tick, every block below the topmost one of its
\* stack keeps its variant, fields and position.
C34_Original == [][tickno' = tickno + 1 => AllBelowKept(layers, layers')]_vars

\* C34 witness: a signal changed the top block of a stack of two blocks or
\* took it away, and the block below stayed.
C34_TopChangedOverBlock ==
    \E e \in Entries : \E c \in e.changed :
        /\ e.tk <= tickno
        /\ Len(c.pre) = 2
        /\ c.post # <<>>
        /\ c.post[1] = c.pre[1]
        /\ e.top[1] = "Move"

\* The 3 direction bits of a dir_layer byte.
DirBits(dl) == BitAnd(dl, 224)

\* The entry is of a signal delivered to a Storage or a Gate block.
StorageOrGate(e) == e.top[1] \in {"Storage", "Gate"}

\* Signal j of the bucket that the tick being taken pops was delivered by it.
DeliveredNow(j) ==
    /\ j <= Len(log')
    /\ log'[j].sig = Head(signals_queue)[j]
    /\ log'[j].born = Head(born)[j]
    /\ log'[j].tk = tickno'

\* C35: what a Storage or a Gate block enqueues while tick N runs goes to
\* bucket 0 of the queue, behind what is there, and has the direction bits of
\* the signal that was delivered to the block; the signals of bucket 0 are
\* the ones the next tick delivers, so such a signal is delivered by tick
\* N + 1 (when that tick runs and gets to it), not by tick N and not later.
C35_ForwardedForNextTick ==
    /\ [](\A e \in Entries :
             StorageOrGate(e) =>
                 \A x \in e.enq : /\ x.at = 0
                                  /\ DirBits(x.sig[2]) = DirBits(e.sig[2])
                                  /\ e.kept)
    /\ [](\A e \in Entries :
             e.born.by \in {"Storage", "Gate"} =>
                 /\ e.tk = e.born.at + 1
                 /\ \E h \in Entries : /\ h.tk = e.born.at
                                       /\ h.top[1] = e.born.by
                                       /\ e.sig \in {x.sig : x \in h.enq}
                                       /\ DirBits(e.sig[2]) = DirBits(h.sig[2]))
    /\ [](\A k \in 1..Len(born) : \A j \in 1..Len(born[k]) :
             born[k][j].by \in {"Storage", "Gate"} => k = 1 /\ born[k][j].at = tickno)
    /\ [][(tickno' = tickno + 1 /\ halted' = "no") =>
             \A j \in 1..Len(Head(born)) :
                 Head(born)[j].by \in {"Storage", "Gate"} => DeliveredNow(j)]_vars

\* C35 witness: a signal that arrived against the stored direction of an open
\* Gate at tick 1 was forwarded, and tick 2 delivered it to the next block.
C35_DeliveredNextTick ==
    \E e \in Entries :
        /\ e.born.by \in {"Storage", "Gate"}
        /\ e.tk = 2
        /\ e.top[1] = "Color"
        /\ \E h \in Entries : /\ h.tk = 1
                              /\ h.top[1] = "Gate"
                              /\ DirBits(h.sig[2]) = DirBits(dir_rev(h.top[3]))
                              /\ e.sig \in {x.sig : x \in h.enq}

\* min(signal, 255) as a u8
MinWith255(v) == IF v[1] > 0 \/ v[2] > 255 THEN 255 ELSE v[2]

\* What C36 says of the entry of a front-signal delivered to a Storage block.
FrontOfStorageAsStated(e) ==
    /\ e.after[1] = "Storage"
    /\ e.after[2] = e.top[2]
    /\ e.after[4] = e.top[4]
    /\ e.after[3] = MinWith255(e.sig[1])
    /\ \A x \in e.enq : x.sig[1] = e.top[2]

\* C36 as stated: a signal delivered to a Storage block with the block's
\* direction or its reverse leaves the stored value and dir as they were and
\* sets mode to min(signal, 255), whether or not advancing succeeds, and what
\* is forwarded carries the value held before.
C36_Original ==
    \A e \in Entries :
        (e.top[1] = "Storage" /\ AlongOrAgainst(e, e.top[4])) => FrontOfStorageAsStated(e)

\* What the code does: C36 holds of the signals that arrive with the stored
\* direction itself, with and without a cell to advance to.
C36_AlongDirOnly ==
    \A e \in Entries :
        (e.top[1] = "Storage" /\ DirCode(e.sig[2]) = DirCode(e.top[4]))
            => FrontOfStorageAsStated(e)

\* A Storage block of a layer direction on layer 0 got a signal against its
\* direction, of a value that is not its mode, and kept its mode.
C36_ModeNotSet ==
    \E e \in Entries :
        /\ e.top[1] = "Storage"
        /\ LayerOf(e) = 0
        /\ DirCode(e.top[4]) = DirCode(DIR_UP_L)
        /\ DirCode(e.sig[2]) = DirCode(DIR_DOWN_L)
        /\ e.top[3] # MinWith255(e.sig[1])
        /\ e.after = e.top
        /\ e.halt = "no"

\* C37: when advance with a legal direction d succeeds, advance with
\* reverse(d) from the position it yields succeeds too and yields the
\* original chunk key, index and layer (with the direction bits of
\* reverse(d)), whether or not the step crosses a chunk edge or wraps the
\* key, and in either build.
C37_ReverseUndoesAdvance ==
    (addr.op = "there_and_back" /\ addr.there.ok) =>
        /\ addr.back.ok
        /\ ~addr.back.panic
        /\ addr.back.pos_chunk = addr.pos_chunk
        /\ addr.back.pos_inner = addr.pos_inner
        /\ LayerBits(addr.back.dir_layer) = LayerBits(addr.dir_layer)
        /\ DirCode(addr.back.dir_layer) = OppositeCode(DirCode(addr.dir_layer))

\* C37 witness: a step left from the first column of a chunk with chunk_x 0
\* went to another chunk, and the step right from there came back.
C37_BackAcrossZero ==
    /\ addr.op = "there_and_back"
    /\ DirCode(addr.dir_layer) = DirCode(DIR_LEFT)
    /\ addr.pos_chunk = <<0, 1, 0, 0>>
    /\ addr.pos_inner = 240
    /\ addr.there.ok
    /\ addr.there.pos_chunk # addr.pos_chunk
    /\ addr.back.ok
    /\ addr.back.pos_chunk = addr.pos_chunk

\* The halves of a chunk key, and the nibbles of an index.
ChunkYHalf(k) == <<k[1], k[2]>>
ChunkXHalf(k) == <<k[3], k[4]>>
LocalY(i) == i \div 16
LocalX(i) == i % 16

Horizontal(dl) == DirCode(dl) \in {DirCode(DIR_LEFT), DirCode(DIR_RIGHT)}
Vertical(dl) == DirCode(dl) \in {DirCode(DIR_UP), DirCode(DIR_DOWN)}

\* What a successful advance left alone, but for the chunk_y half of the key
\* in a horizontal move when yHalf is not asked for.
AdvanceFrame(yHalf) ==
    (addr.op = "there_and_back" /\ addr.there.ok) =>
        /\ DirCode(addr.there.dir_layer) = DirCode(addr.dir_layer)
        /\ (Horizontal(addr.dir_layer) \/ Vertical(addr.dir_layer)) =>
              LayerBits(addr.there.dir_layer) = LayerBits(addr.dir_layer)
        /\ Horizontal(addr.dir_layer) =>
              /\ LocalY(addr.there.pos_inner) = LocalY(addr.pos_inner)
              /\ yHalf => ChunkYHalf(addr.there.pos_chunk) = ChunkYHalf(addr.pos_chunk)
        /\ Vertical(addr.dir_layer) =>
              /\ LocalX(addr.there.pos_inner) = LocalX(addr.pos_inner)
              /\ ChunkXHalf(addr.there.pos_chunk) = ChunkXHalf(addr.pos_chunk)

\* C38 as stated: a successful advance keeps the 3 direction bits; a planar
\* move keeps the layer bits, a horizontal move keeps the local y nibble and
\* the chunk_y half of the key, a vertical move keeps the local x nibble and
\* the chunk_x half of the key.
C38_Original == AdvanceFrame(TRUE)

\* What the code does: all of C38 but the chunk_y half in a horizontal move.
C38_ButChunkYHalf == AdvanceFrame(FALSE)

\* A step left from the first column of the chunk with chunk_x 0 and chunk_y
\* 1 succeeded and came to a chunk with chunk_y 0.
C38_LeftChangedChunkY ==
    /\ addr.op = "there_and_back"
    /\ DirCode(addr.dir_layer) = DirCode(DIR_LEFT)
    /\ addr.pos_chunk = <<0, 1, 0, 0>>
    /\ LocalX(addr.pos_inner) = 0
    /\ addr.there.ok
    /\ ChunkYHalf(addr.there.pos_chunk) = <<0, 0>>
    /\ overflow_checks

\* A Move or Swap block was triggered: it got a side-signal, both positions
\* are valid and nothing panicked.
Triggered(e) == MoveActs(e) \/ SwapActs(e)

\* The cell whose stack a triggered Move or Swap pops, and the other one.
PoppedCell(e) == IF e.top[1] = "Move" THEN MovePopped(e) ELSE BehindCell(e)
OtherCell(e) ==
    IF e.top[1] = "Move" /\ e.sig[1] # U32_ZERO THEN FrontCell(e)
    ELSE IF e.top[1] = "Move" THEN BehindCell(e)
    ELSE FrontCell(e)

\* The chunk of the cell m (a result of advance) is in layer l of the layers ls.
CellChunkIn(ls, m) == m.pos_chunk \in DOMAIN ls[LayerBits(m.dir_layer) + 1]

\* The target chunks in layer l of the signals the tick just taken delivered,
\* and the chunks in layer l of the cells next to its triggered Move and Swap
\* blocks.
TargetChunks(l) == {log'[i].sig[3] : i \in {j \in 1..Len(log') : LayerOf(log'[j]) = l}}
NeighbourChunks(l) ==
    UNION {{m.pos_chunk : m \in {n \in {PoppedCell(log'[i]), OtherCell(log'[i])} :
                                    LayerBits(n.dir_layer) = l}} :
           i \in {j \in 1..Len(log') : Triggered(log'[j])}}

\* A block was put on stack i of chunk k of layer l by the tick just taken.
ReceivedBlock(l, k, i) ==
    \E j \in 1..Len(log') : \E c \in log'[j].changed :
        c.l = l /\ c.chunk = k /\ c.inner = i /\ Len(c.post) > Len(c.pre)

\* C39: a tick adds to a layer's chunk set the target chunk of every signal
\* it delivers, the chunk of the stack that a triggered Move or Swap pops
\* and, when that stack held a block, the chunk of its other neighbouring
\* stack, and no other key; no key is removed; and in a chunk the tick added
\* every stack is empty unless the tick put a block on it.
C39_TickMaterialisesVisitedChunks ==
    [][tickno' = tickno + 1 =>
          /\ \A l \in 0..(NumLayers - 1) :
                /\ DOMAIN layers[l + 1] \cup TargetChunks(l) \subseteq DOMAIN layers'[l + 1]
                /\ DOMAIN layers'[l + 1]
                       \subseteq DOMAIN layers[l + 1] \cup TargetChunks(l) \cup NeighbourChunks(l)
                /\ \A k \in DOMAIN layers'[l + 1] \ DOMAIN layers[l + 1] :
                      \A i \in 0..(ChunkLen - 1) :
                          layers'[l + 1][k][i + 1] = <<>> \/ ReceivedBlock(l, k, i)
          /\ \A j \in 1..Len(log') :
                Triggered(log'[j]) => CellChunkIn(layers', PoppedCell(log'[j]))
          /\ \A j \in 1..Len(log') :
                (Triggered(log'[j]) /\ Len(log') = 1) =>
                    (CellChunkIn(layers', OtherCell(log'[j]))
                        <=> \/ CellChunkIn(layers, OtherCell(log'[j]))
                            \/ CellStack(layers, PoppedCell(log'[j])) # <<>>)]_vars

\* C39 witness: a Move block between two layers that had no chunks was
\* triggered; the layer of the stack it popped has the chunk now, with 256
\* empty stacks, and the other layer has none.
C39_EmptyNeighbourMaterialised ==
    /\ tickno >= 1
    /\ \E e \in Delivered :
          /\ MoveActs(e)
          /\ e.changed = {}
          /\ \E c \in e.created :
                /\ c[1] = LayerBits(PoppedCell(e).dir_layer)
                /\ c[2] = PoppedCell(e).pos_chunk
                /\ AllEmpty(layers[c[1] + 1][c[2]])
          /\ ~CellChunkIn(layers, OtherCell(e))

====
